---- MODULE Spec2Model ----
(***************************************************************************)
(* Model of the ambient synthesizer firmware (src/unnamed/part_002) and,   *)
(* where it differs, of its browser port (src/lab/loot.js): the musical    *)
(* clock, the scale quantizer, the pluck voice pool with its ADSR, the     *)
(* note scheduler, the tempo-synced delay and the reverb rings.            *)
(*                                                                         *)
(* Numbers.  Sample counts, MIDI notes, percents and BPM are integers as   *)
(* in the code.  The two float expressions that produce sample counts      *)
(* (clock_spt_from_bpm, delay_samples_from_bpm) are computed with IEEE     *)
(* binary32 rounding, in units of 1/4096 (Q12).  Envelope values are       *)
(* fixed point in units of 1/EnvOne, audio samples in units of 1/32767.    *)
(***************************************************************************)
EXTENDS Integers, Sequences, FiniteSets, TLC

VARIABLES
  gClock,      \* Clock16: smpNow, nextTickAt, samplesPerTick, step16, bpm
  stepLog,     \* the step index of every onStep16 call made by the clock, in order
  clockObs,    \* observation of the clock: last operation, re-arm time, first tick after it
  qIn,         \* quantizer run: the (midi, scale) it is applied to
  qOut,        \* quantizer run: its result, or -1 before the call
  dIn,         \* delay-length run: the (bpm, mode) delay_samples_from_bpm is applied to
  dOut,        \* delay-length run: its result, or -1 before the call
  port,        \* "firmware" (part_002) or "browser" (loot.js): which noteOn is running
  gScale,      \* the current scale
  gPluck,      \* PluckPool.v: voice index 0..3 -> PluckVoice
  adsr,        \* the ADSR time constants of the pool's voices (per-sample amounts)
  pluckObs,    \* observation of the pool: last operation, its arguments, counters
  last,        \* pickAmbientNote's remembered note (static last / lastAmbient)
  schedObs,    \* observation of the scheduler: last operation, step, note picked
  currentPage, \* the UI page the encoder acts on
  params,      \* Params: volume, tempo, space, mood, tone, energy
  gDelay,      \* Delay: size, w, dSamp, bpmCached, mode, inited
  pad,         \* Pad: triMix (binary32, in 1/TriOne), lpfCutHz and the cutoff lp is tuned to (as 1000 * ln Hz)
  gScene,      \* SceneXfade: active, tStartSmp, tEndSmp, start, target
  gSceneSch,   \* SceneScheduler: nextSceneAt, minIntvSmp, maxIntvSmp, inited
  loopObs,     \* observation of loop(): position in the iteration, counters
  fxDelay,     \* the delay line with its ring: buf, size, w, dSamp, send, fb, tone
  fxComb,      \* one CombLite of the reverb: buf, size, w, fb, damp, filt
  fxAp,        \* one AllpassLite of the reverb: buf, size, w, g
  fxObs,       \* observation of the effects: last step, the value it was to write
  dlMix,       \* the mix part of Delay: baseSend, baseWet, send, wet, fb
  gReverb,     \* the mix part of ReverbLite: baseSend, baseWet, send, wet, c[0..3].fb/.damp
  gGesture,    \* GestureCtrl: nextAt, active, tStart .. tEnd, env, fxSendBoost, fxWetBoost
  mixObs,      \* observation of the mix: position in loop(), sample time, counters
  panelObs,    \* observation of the panel run: position in loop(), phase, counters
  encPins,     \* the encoder's pins as digitalRead sees them: 2 * A + B
  encPrev,     \* the pin pair readEncoderStep saw last
  encDelta,    \* steps counted and not yet taken
  btnRaw,      \* set by the button interrupt onEncButton
  encObs,      \* the loop's position, its locals, the interrupt mask and the two sums
  lastAB,        \* interrupt-driven variant: the pin pair isr_encA saw last
  encLastMicros, \* micros() at the last edge isr_encA accepted
  isrObs,        \* audioBlock's position and local d, the time, the pending interrupt, the two sums
  gRun,          \* two runs of the firmware from one seed: per run the PRNG word, the clocks, the schedulers, the notes started
  detObs,        \* whose turn it is, and the stalls taken
  plk,           \* ambient-house variant: the PLUCK_N pluck voices
  ambObs,        \* the last operation on the voices, its frequency increment, the operations made
  wobSt,         \* onStep16's per-bar wobble: the build, step16, lastBar, wob
  wobObs,        \* the onStep16 calls made, those since the last re-draw, the last call
  envV,          \* one pluck voice with a binary32 envelope: active, st, env, gate
  envObs,        \* its time constants, the samples rendered since its last noteOn, the noteOns
  envTick        \* the parity of the blocks rendered

clockVars == <<gClock, stepLog, clockObs>>
quantVars == <<qIn, qOut>>
dlenVars == <<dIn, dOut>>
pluckVars == <<port, gScale, gPluck, adsr, pluckObs>>
schedVars == <<last, schedObs>>
loopVars == <<currentPage, params, gDelay, pad, gScene, gSceneSch, loopObs>>
fxVars == <<fxDelay, fxComb, fxAp, fxObs>>
mixVars == <<dlMix, gReverb, gGesture, mixObs>>
panelVars == <<panelObs>>
encVars == <<encPins, encPrev, encDelta, btnRaw, encObs>>
isrVars == <<lastAB, encLastMicros, isrObs>>
detVars == <<gRun, detObs>>
ambVars == <<plk, ambObs>>
wobVars == <<wobSt, wobObs>>
envVars == <<envV, envObs, envTick>>
vars == <<gClock, stepLog, clockObs, qIn, qOut, dIn, dOut,
          port, gScale, gPluck, adsr, pluckObs, last, schedObs,
          currentPage, params, gDelay, pad, gScene, gSceneSch, loopObs,
          fxDelay, fxComb, fxAp, fxObs,
          dlMix, gReverb, gGesture, mixObs,
          panelObs,
          encPins, encPrev, encDelta, btnRaw, encObs,
          lastAB, encLastMicros, isrObs,
          gRun, detObs,
          plk, ambObs,
          wobSt, wobObs,
          envV, envObs, envTick>>

(***************************************************************************)
(* Program constants                                                       *)
(***************************************************************************)
SR == 44100
CHUNK == 256
MinBpm == 30
MaxBpm == 240
DefaultBpm == 104
DELAY_MAX_SAMPLES == 32768

(***************************************************************************)
(* Bounds of the model                                                     *)
(***************************************************************************)
MaxBlocks == 8          \* blocks the clock specification advances through
MaxRetunes == 2         \* tempo changes the clock specification makes
MaxNoteOns == 5         \* noteOn calls the pluck specification makes
MaxRenders == 8         \* samples the pluck specification renders
MaxSteps == 3           \* 16th steps the scheduler specification handles
MaxSwitches == 2        \* scale switches the scheduler specification makes
MaxIters == 1800        \* iterations of loop() the loop specification makes
MaxIdleIters == 16      \* ... of which with no scene crossfade running
MaxTurns == 2           \* encoder turns the loop specification takes
PreludeIters == 7       \* the user can act in each of the first iterations of loop() ...
SlotEvery == 1024       \* ... and turn the encoder in every SlotEvery-th after them
MaxFxSteps == 5         \* steps and parameter changes the effects specification makes
RingLen == 2            \* samples in a comb and an allpass ring; the delay ring has one more
MaxMixBlocks == 540     \* iterations of loop() the mix specification makes
MixSlot == 192          \* the user and the scene act in every MixSlot-th of them
MaxMixEdits == 2        \* encoder turns the mix specification takes
MaxSceneMoves == 1      \* steps a scene crossfade moves the space percent by
MaxPanelIters == 2130   \* iterations of loop() the panel specification makes
PanelClickIters == 4    \* iterations after the scene turn in which the button is clicked
PanelSlot == 800        \* the encoder is turned in every PanelSlot-th iteration after it
MaxPanelTurns == 2      \* encoder turns taken after the scene turn
MaxEncEdges == 5        \* pin changes of the encoder in one run
MaxPresses == 2         \* button interrupts in one run
MaxIsrEdges == 4        \* pin changes of the encoder in one run of the interrupt-driven variant
MaxDetBlocks == 625     \* iterations of loop() each of the two compared runs makes
MaxStalls == 1          \* stalls of the outer loop in the second run
MaxAmbOps == 6          \* triggers and renders of the ambient-house pluck voices in one run
MaxWobSteps == 40       \* onStep16 calls in one run of the wobble
MaxEnvNoteOns == 2      \* noteOns on the voice with the binary32 envelope

Q12 == 2 ^ 12              \* float values are held as multiples of 1/4096

(***************************************************************************)
(* IEEE binary32 arithmetic on the values the sample-count formulas meet   *)
(* (2^11 <= value < 2^17), in Q12 units.                                   *)
(***************************************************************************)
Abs(x) == IF x >= 0 THEN x ELSE -x
Pow2(n) == IF n <= 0 THEN 1 ELSE 2 ^ n

\* floor(log2(v)) for an integer v >= 1
RECURSIVE Log2(_)
Log2(v) == IF v < 2 THEN 0 ELSE 1 + Log2(v \div 2)

\* one unit in the last place of a binary32 whose integer part is ip, in Q12 units
\* (24-bit significand: ulp = 2^(e-23); values below 2^11 are kept at 1/4096)
UlpQ12(ip) == Pow2(Log2(ip) - 11)

\* round x (Q12) to the nearest multiple of u, ties to the even multiple
RoundToUlp(x, u) ==
  LET m == x \div u
      r == x % u
  IN  IF 2 * r > u \/ (2 * r = u /\ m % 2 = 1) THEN (m + 1) * u ELSE m * u

\* binary32 value of x (Q12, exact real x/4096)
F32(x) == RoundToUlp(x, UlpQ12(x \div Q12))

\* binary32 quotient n / d of two exactly representable integers, in Q12:
\* the exact quotient is q + r/d; q*4096 is a multiple of the ulp, so only the
\* fraction is rounded (ties to even on the whole significand).
F32Div(n, d) ==
  LET q == n \div d
      r == n % d
      u == UlpQ12(q)
      a == r * Q12            \* fraction numerator, over d
      b == d * u
      m == a \div b
      rem == a % b
      base == (q * Q12) \div u
      up == 2 * rem > b \/ (2 * rem = b /\ (base + m) % 2 = 1)
  IN  (base + m + (IF up THEN 1 ELSE 0)) * u

\* (uint32_t)(x + 0.5f): binary32 sum, then truncation
TruncHalfUp(x) == F32(x + Q12 \div 2) \div Q12

(***************************************************************************)
(* Musical clock                                                           *)
(***************************************************************************)
clock_spt_from_bpm(bpm) ==
  LET b == IF bpm < MinBpm THEN MinBpm ELSE bpm
  IN  TruncHalfUp(F32Div(SR * 60, b * 4))

clock_init(bpm) ==
  [bpm |-> bpm,
   samplesPerTick |-> clock_spt_from_bpm(bpm),
   smpNow |-> 0,
   nextTickAt |-> clock_spt_from_bpm(bpm),
   step16 |-> 0]

\* a tempo update that re-derives samplesPerTick but keeps the pending tick
UpdateKeepsPendingTick(c, bpm) ==
  IF bpm # c.bpm
  THEN [c EXCEPT !.bpm = bpm, !.samplesPerTick = clock_spt_from_bpm(bpm)]
  ELSE c

\* a tempo update that lets a pending tick stay when it is the closer one
UpdateKeepsCloserTick(c, bpm) ==
  IF bpm # c.bpm
  THEN [c EXCEPT !.bpm = bpm,
                 !.samplesPerTick = clock_spt_from_bpm(bpm),
                 !.nextTickAt = IF c.nextTickAt < c.smpNow + clock_spt_from_bpm(bpm)
                                THEN c.nextTickAt
                                ELSE c.smpNow + clock_spt_from_bpm(bpm)]
  ELSE c

\* the new clock after clock_update_tempo_if_changed(c, bpm)
clock_update_tempo_if_changed(c, bpm) ==
  IF bpm # c.bpm
  THEN [c EXCEPT !.bpm = bpm,
                 !.samplesPerTick = clock_spt_from_bpm(bpm),
                 !.nextTickAt = c.smpNow + clock_spt_from_bpm(bpm)]
  ELSE c

\* a clock that fires at most one tick per block (if instead of while)
TickOnce(c, fired, blockEnd) ==
  IF c.nextTickAt <= blockEnd
  THEN <<[c EXCEPT !.step16 = (c.step16 + 1) % 16,
                   !.nextTickAt = c.nextTickAt + c.samplesPerTick],
         Append(fired, <<c.step16, c.nextTickAt>>)>>
  ELSE <<c, fired>>

\* the while loop of clock_advance_block; fired collects <<step passed to onStep16, tick time>>
RECURSIVE TickLoop(_, _, _)
TickLoop(c, fired, blockEnd) ==
  IF c.nextTickAt <= blockEnd
  THEN TickLoop([c EXCEPT !.step16 = (c.step16 + 1) % 16,
                          !.nextTickAt = c.nextTickAt + c.samplesPerTick],
                Append(fired, <<c.step16, c.nextTickAt>>), blockEnd)
  ELSE <<c, fired>>

\* <<new clock, the onStep16 calls made, as <<step, tick time>> >>
clock_advance_block(c, blockSamples) ==
  LET blockEnd == c.smpNow + blockSamples
      r == TickLoop(c, <<>>, blockEnd)
  IN  <<[r[1] EXCEPT !.smpNow = blockEnd], r[2]>>

Steps(fired) == [i \in 1..Len(fired) |-> fired[i][1]]

ClockTempos == {MinBpm, DefaultBpm, MaxBpm}
BlockSizes == {CHUNK, 10 * CHUNK, 30 * CHUNK}

ClockObsInit ==
  [op |-> "init", arg |-> 0, retunes |-> 0, rearmAt |-> 0, firstTick |-> 0,
   blocks |-> 0, blockTicks |-> 0, prev |-> clock_init(DefaultBpm)]

AdvanceBlock ==
  \E b \in BlockSizes :
    /\ clockObs.blocks < MaxBlocks
    /\ LET r == clock_advance_block(gClock, b)
       IN  /\ gClock' = r[1]
           /\ stepLog' = stepLog \o Steps(r[2])
           /\ clockObs' = [clockObs EXCEPT
                 !.op = "advance", !.arg = b, !.prev = gClock,
                 !.blocks = clockObs.blocks + 1,
                 !.blockTicks = Len(r[2]),
                 !.firstTick = IF clockObs.firstTick = 0 /\ Len(r[2]) > 0
                               THEN r[2][1][2] ELSE clockObs.firstTick]
    /\ UNCHANGED <<quantVars, dlenVars, pluckVars, schedVars, loopVars, fxVars, mixVars, panelVars, encVars, isrVars, detVars, ambVars, wobVars, envVars>>

UpdateTempo ==
  \E bpm \in ClockTempos :
    /\ bpm # gClock.bpm => clockObs.retunes < MaxRetunes
    /\ gClock' = clock_update_tempo_if_changed(gClock, bpm)
    /\ clockObs' = [clockObs EXCEPT
          !.op = "update", !.arg = bpm, !.prev = gClock,
          !.retunes = clockObs.retunes + (IF bpm # gClock.bpm THEN 1 ELSE 0),
          !.rearmAt = IF bpm # gClock.bpm THEN gClock.smpNow ELSE clockObs.rearmAt,
          !.firstTick = IF bpm # gClock.bpm THEN 0 ELSE clockObs.firstTick]
    /\ UNCHANGED <<stepLog, quantVars, dlenVars, pluckVars, schedVars, loopVars, fxVars, mixVars, panelVars, encVars, isrVars, detVars, ambVars, wobVars, envVars>>

(***************************************************************************)
(* Scale quantizer                                                         *)
(***************************************************************************)
SCALE_C_MINOR == 0
SCALE_A_MINOR == 1
SCALE_D_DORIAN == 2
SCALE_C_LYDIAN == 3
Scales == {SCALE_C_MINOR, SCALE_A_MINOR, SCALE_D_DORIAN, SCALE_C_LYDIAN}

\* SCALES[s] = [rootPC, degrees, count]
SCALES ==
  [s \in Scales |->
     CASE s = SCALE_C_MINOR  -> [rootPC |-> 0, degrees |-> <<0, 2, 4, 6, 7, 9, 11>>, count |-> 7]
       [] s = SCALE_A_MINOR  -> [rootPC |-> 9, degrees |-> <<0, 2, 3, 5, 7, 8, 10>>, count |-> 7]
       [] s = SCALE_D_DORIAN -> [rootPC |-> 2, degrees |-> <<0, 2, 3, 5, 7, 9, 10>>, count |-> 7]
       [] s = SCALE_C_LYDIAN -> [rootPC |-> 0, degrees |-> <<0, 2, 4, 6, 7, 9, 11>>, count |-> 7]]

scaleDef(s) == SCALES[s]

pc12(m) == m % 12     \* C: x = m % 12; x < 0 ? x + 12 : x

\* a loop body that breaks ties downward
QuantStepTieDown(best, targetPC, inPC) ==
  LET d0 == targetPC - inPC
      d1 == IF d0 > 6 THEN d0 - 12 ELSE d0
      d == IF d1 < -6 THEN d1 + 12 ELSE d1
      ad == IF d >= 0 THEN d ELSE -d
  IN  IF ad < best.bestAbs \/ (ad = best.bestAbs /\ d < best.bestDiff)
      THEN [bestAbs |-> ad, bestDiff |-> d]
      ELSE best

\* one iteration of quantizeMidi's loop over the scale degrees
QuantStep(best, targetPC, inPC) ==
  LET d0 == targetPC - inPC
      d1 == IF d0 > 6 THEN d0 - 12 ELSE d0
      d == IF d1 < -6 THEN d1 + 12 ELSE d1
      ad == IF d >= 0 THEN d ELSE -d
  IN  IF ad < best.bestAbs \/ (ad = best.bestAbs /\ d > best.bestDiff)
      THEN [bestAbs |-> ad, bestDiff |-> d]
      ELSE best

RECURSIVE QuantLoop(_, _, _, _)
QuantLoop(sd, i, best, inPC) ==
  IF i > sd.count THEN best
  ELSE QuantLoop(sd, i + 1,
                 QuantStep(best, (sd.rootPC + sd.degrees[i]) % 12, inPC), inPC)

quantizeMidi(midi, s) ==
  LET best == QuantLoop(scaleDef(s), 1, [bestAbs |-> 128, bestDiff |-> 127], pc12(midi))
      out == midi + best.bestDiff
  IN  IF out < 0 THEN 0 ELSE IF out > 127 THEN 127 ELSE out

MidiNotes == 0..127

Quantize ==
  /\ qOut = -1
  /\ qOut' = quantizeMidi(qIn[1], qIn[2])
  /\ UNCHANGED <<qIn, clockVars, dlenVars, pluckVars, schedVars, loopVars, fxVars, mixVars, panelVars, encVars, isrVars, detVars, ambVars, wobVars, envVars>>

(***************************************************************************)
(* Delay length                                                            *)
(***************************************************************************)
DELAY_1_8 == 0
DELAY_1_4 == 1
DelayModes == {DELAY_1_8, DELAY_1_4}

\* a length computed by truncation, without the + 0.5f
DelaySamplesTruncated(bpm, m) ==
  LET b == IF bpm < MinBpm THEN MinBpm ELSE bpm
      qnote == F32Div(SR * 60, b)
      want == IF m = DELAY_1_8 THEN qnote \div 2 ELSE qnote
      s0 == want \div Q12
      s1 == IF s0 < 1 THEN 1 ELSE s0
  IN  IF s1 >= DELAY_MAX_SAMPLES THEN DELAY_MAX_SAMPLES - 1 ELSE s1

\* qnote * 0.5f is exact in binary32 (a change of exponent), and a Q12 value that is a
\* multiple of an ulp >= 2/4096 halves exactly; below that the quotient is exact
delay_samples_from_bpm(bpm, m) ==
  LET b == IF bpm < MinBpm THEN MinBpm ELSE bpm
      qnote == F32Div(SR * 60, b)
      want == IF m = DELAY_1_8 THEN qnote \div 2 ELSE qnote
      s0 == TruncHalfUp(want)
      s1 == IF s0 < 1 THEN 1 ELSE s0
  IN  IF s1 >= DELAY_MAX_SAMPLES THEN DELAY_MAX_SAMPLES - 1 ELSE s1

Tempos == MinBpm..MaxBpm

DelayLength ==
  /\ dOut = -1
  /\ dOut' = delay_samples_from_bpm(dIn[1], dIn[2])
  /\ UNCHANGED <<dIn, clockVars, quantVars, pluckVars, schedVars, loopVars, fxVars, mixVars, panelVars, encVars, isrVars, detVars, ambVars, wobVars, envVars>>

(***************************************************************************)
(* Pluck voice pool and ADSR                                               *)
(*                                                                         *)
(* env and the sustain level are in units of 1/EnvOne, velocities in       *)
(* 1/1000.  A voice's phase is held as the number of samples rendered      *)
(* since it was reset (the code adds TAU*freqHz/SR per sample, mod TAU).   *)
(* freqHz is midiToHz(midi), a function of the midi field.                 *)
(***************************************************************************)
EnvOne == 10 ^ 4
ReleaseFloor == 8 * (EnvOne \div 10 ^ 4)      \* 0.0008f
VelOne == 10 ^ 3

ENV_IDLE == 0
ENV_ATTACK == 1
ENV_DECAY == 2
ENV_SUSTAIN == 3
ENV_RELEASE == 4

Voices == 0..3

\* PluckVoice(): the default-constructed voice (env, state and gate of ADSR)
PluckVoice ==
  [active |-> FALSE, midi |-> 60, phase |-> 0, vel |-> 700,
   env |-> 0, st |-> ENV_IDLE, gate |-> FALSE]

pluck_init == [i \in Voices |-> PluckVoice]

\* ADSR time constants as per-sample amounts: the attack lasts aNum/aDen samples
\* (a * sr), the decay dNum/dDen, the release rNum/rDen; s is the sustain level.
\* The firmware's constants (a = 3 ms, d = 80 ms, s = 0, r = 60 ms) have the shape of
\* the first entry, with the times shortened to a few samples.
AdsrSettings ==
  { [aNum |-> 2, aDen |-> 1, dNum |-> 2, dDen |-> 1, s |-> 0, rNum |-> 2, rDen |-> 1],
    [aNum |-> 2, aDen |-> 1, dNum |-> 1, dDen |-> 1, s |-> EnvOne \div 2, rNum |-> 4, rDen |-> 3],
    [aNum |-> 1, aDen |-> 2, dNum |-> 1, dDen |-> 2, s |-> EnvOne \div 4, rNum |-> 1, rDen |-> 2],
    [aNum |-> 3, aDen |-> 1, dNum |-> 2, dDen |-> 1, s |-> EnvOne, rNum |-> 1, rDen |-> 1] }

\* a Sustain that holds although the gate is released
SustainStays(v) == ENV_SUSTAIN

\* adsr_step, case ENV_SUSTAIN: if (!e.gate) e.st = ENV_RELEASE
SustainNext(v) == IF ~v.gate THEN ENV_RELEASE ELSE ENV_SUSTAIN

\* an attack that does not stop at 1.0
AdsrStepNoAttackLimit(v, e) ==
  CASE v.st = ENV_ATTACK ->
         LET inc == IF e.aNum <= 0 THEN EnvOne ELSE (EnvOne * e.aDen) \div e.aNum
             env == v.env + inc
         IN  IF env >= EnvOne THEN [v EXCEPT !.env = env, !.st = ENV_DECAY]
             ELSE [v EXCEPT !.env = env]
    [] v.st = ENV_DECAY ->
         LET env == v.env - (IF e.dNum <= 0 THEN EnvOne - e.s
                             ELSE ((EnvOne - e.s) * e.dDen) \div e.dNum)
         IN  IF env <= e.s THEN [v EXCEPT !.env = e.s, !.st = ENV_SUSTAIN]
             ELSE [v EXCEPT !.env = env]
    [] v.st = ENV_SUSTAIN ->
         IF ~v.gate THEN [v EXCEPT !.st = ENV_RELEASE] ELSE v
    [] v.st = ENV_RELEASE ->
         LET env == v.env - (IF e.rNum <= 0 THEN v.env ELSE (v.env * e.rDen) \div e.rNum)
         IN  IF env <= ReleaseFloor THEN [v EXCEPT !.env = 0, !.st = ENV_IDLE]
             ELSE [v EXCEPT !.env = env]
    [] OTHER -> [v EXCEPT !.env = 0]

\* adsr_step on voice v's envelope, with time constants e
adsr_step(v, e) ==
  CASE v.st = ENV_ATTACK ->
         LET inc == IF e.aNum <= 0 THEN EnvOne ELSE (EnvOne * e.aDen) \div e.aNum
             env == v.env + inc
         IN  IF env >= EnvOne THEN [v EXCEPT !.env = EnvOne, !.st = ENV_DECAY]
             ELSE [v EXCEPT !.env = env]
    [] v.st = ENV_DECAY ->
         LET env == v.env - (IF e.dNum <= 0 THEN EnvOne - e.s
                             ELSE ((EnvOne - e.s) * e.dDen) \div e.dNum)
         IN  IF env <= e.s THEN [v EXCEPT !.env = e.s, !.st = ENV_SUSTAIN]
             ELSE [v EXCEPT !.env = env]
    [] v.st = ENV_SUSTAIN -> [v EXCEPT !.st = SustainNext(v)]
    [] v.st = ENV_RELEASE ->
         LET env == v.env - (IF e.rNum <= 0 THEN v.env ELSE (v.env * e.rDen) \div e.rNum)
         IN  IF env <= ReleaseFloor THEN [v EXCEPT !.env = 0, !.st = ENV_IDLE]
             ELSE [v EXCEPT !.env = env]
    [] OTHER -> [v EXCEPT !.env = 0]

\* a render that leaves the voice flagged when its envelope has reached Idle
RenderVoiceNoRetire(v, e) ==
  IF ~v.active THEN v
  ELSE LET w == adsr_step(v, e)
       IN  IF w.st = ENV_IDLE THEN w
           ELSE [w EXCEPT !.phase = v.phase + 1]

\* the per-sample pluck render of loop() (Voice.step / PluckPool.mix in the browser)
\* for one voice: skip an inactive voice, step the envelope, retire the voice at Idle,
\* else advance its phase
RenderVoice(v, e) ==
  IF ~v.active THEN v
  ELSE LET w == adsr_step(v, e)
       IN  IF w.st = ENV_IDLE THEN [w EXCEPT !.active = FALSE]
           ELSE [w EXCEPT !.phase = v.phase + 1]

\* an allocation that always takes voice 0 when no voice is free
AllocStealFirst(p) ==
  IF \E i \in Voices : ~p[i].active
  THEN CHOOSE i \in Voices : ~p[i].active /\ \A j \in Voices : j < i => p[j].active
  ELSE 0

\* voice allocation of pluck_noteOn: the first free voice, else the first voice of
\* least env (the scan keeps a voice only when its env is strictly smaller)
pluck_alloc(p) ==
  IF \E i \in Voices : ~p[i].active
  THEN CHOOSE i \in Voices : ~p[i].active /\ \A j \in Voices : j < i => p[j].active
  ELSE CHOOSE i \in Voices :
         /\ \A j \in Voices : p[i].env <= p[j].env
         /\ \A j \in Voices : j < i => p[j].env > p[i].env

constrain(x, lo, hi) == IF x < lo THEN lo ELSE IF x > hi THEN hi ELSE x

\* a noteOn that drops the event when no voice is free
NoteOnDropsWhenFull(p, midi, vel, scale, prt) ==
  IF \A i \in Voices : p[i].active THEN p
  ELSE [p EXCEPT ![pluck_alloc(p)] =
          [active |-> TRUE,
           midi |-> IF prt = "firmware" THEN quantizeMidi(midi, scale) ELSE midi,
           phase |-> 0, vel |-> constrain(vel, 0, VelOne),
           env |-> 0, st |-> ENV_ATTACK, gate |-> FALSE]]

\* pluck_noteOn (firmware: the note is quantized to the current scale) and
\* PluckPool.noteOn (browser: the note is stored as given)
pluck_noteOn(p, midi, vel, scale, prt) ==
  [p EXCEPT ![pluck_alloc(p)] =
     [active |-> TRUE,
      midi |-> IF prt = "firmware" THEN quantizeMidi(midi, scale) ELSE midi,
      phase |-> 0, vel |-> constrain(vel, 0, VelOne),
      env |-> 0, st |-> ENV_ATTACK, gate |-> FALSE]]

Ports == {"firmware", "browser"}
\* the <<midi, velocity>> pairs noteOn is called with: a note of A minor, and a
\* note outside it, with a velocity below and above the range
NoteOnInputs == {<<60, -200>>, <<61, 1300>>}

PluckObsInit ==
  [op |-> "init", idx |-> 0, midi |-> 0, vel |-> 0, noteOns |-> 0, renders |-> 0,
   full |-> FALSE]

NoteOn ==
  \E in \in NoteOnInputs :
    /\ pluckObs.noteOns < MaxNoteOns
    /\ gPluck' = pluck_noteOn(gPluck, in[1], in[2], gScale, port)
    /\ pluckObs' = [pluckObs EXCEPT !.op = "noteOn", !.idx = pluck_alloc(gPluck),
                                    !.midi = in[1], !.vel = in[2],
                                    !.noteOns = pluckObs.noteOns + 1,
                                    !.full = \A i \in Voices : gPluck[i].active]
    /\ UNCHANGED <<port, gScale, adsr, clockVars, quantVars, dlenVars, schedVars, loopVars, fxVars, mixVars, panelVars, encVars, isrVars, detVars, ambVars, wobVars, envVars>>

RenderSample ==
  /\ pluckObs.renders < MaxRenders
  /\ gPluck' = [i \in Voices |-> RenderVoice(gPluck[i], adsr)]
  /\ pluckObs' = [pluckObs EXCEPT !.op = "render", !.renders = pluckObs.renders + 1]
  /\ UNCHANGED <<port, gScale, adsr, clockVars, quantVars, dlenVars, schedVars, loopVars, fxVars, mixVars, panelVars, encVars, isrVars, detVars, ambVars, wobVars, envVars>>

(***************************************************************************)
(* Scheduler: onStep16 -> pickAmbientNote -> noteOn                        *)
(*                                                                         *)
(* The values drawn from rng32()/rand01() are inputs of the actions: the   *)
(* outcome of each comparison against a probability, the pool entry, the   *)
(* direction bit and the velocity.                                         *)
(***************************************************************************)
\* the pool pickAmbientNote builds: degrees of the scale over octaves 2..6,
\* kept when within 36..96 (as a set: the entry is drawn at random)
AmbientPool(s) ==
  LET sd == scaleDef(s)
  IN  { m \in 36..96 :
          \E octave \in 2..6, i \in 1..Len(sd.degrees) :
            m = octave * 12 + sd.rootPC + sd.degrees[i] }

\* pickAmbientNote(s): <<note returned, new value of last>>, for pool entry cand and
\* the draws hold (10%), wide (15%), and the direction bits up1, up2
pickAmbientNote(s, lst, cand, hold, wide, up1, up2) ==
  IF hold THEN <<lst, lst>>
  ELSE LET c1 == IF wide THEN cand + (IF up1 THEN 7 ELSE -5) ELSE cand
           c2 == IF Abs(c1 - lst) < 3 THEN c1 + (IF up2 THEN 7 ELSE -5) ELSE c1
           c3 == constrain(c2, 36, 96)
           q == quantizeMidi(c3, s)
       IN  <<q, q>>

\* the scales a scene can target (A minor / D dorian / C lydian)
SceneScales == {SCALE_A_MINOR, SCALE_D_DORIAN, SCALE_C_LYDIAN}

\* pool entries and velocities (0.45 + 0.50 * rand01()) the draws are taken from
PickedNotes == {60, 65, 66, 96}
VelDraws == {450, 900}

\* samples rendered between two 16th steps, on the scale of AdsrSettings: a gap
\* shorter and a gap longer than a voice sounds (the firmware's voice sounds for
\* 3663 samples; a step lasts 2756 samples at 240 BPM and 6361 at 104 BPM)
GapSamples == {4, 8}

RECURSIVE RenderN(_, _, _)
RenderN(p, e, n) ==
  IF n = 0 THEN p ELSE RenderN([i \in Voices |-> RenderVoice(p[i], e)], e, n - 1)

SchedObsInit ==
  [op |-> "init", step |-> 0, steps |-> 0, switches |-> 0, note |-> 0, held |-> FALSE]

\* onStep16(step) when rand01() < p: a note is picked and started
Step16Trigger ==
  \E cand \in AmbientPool(gScale) \cap PickedNotes, hold, wide, up1, up2 \in BOOLEAN,
     vel \in VelDraws :
    LET pk == pickAmbientNote(gScale, last, cand, hold, wide, up1, up2)
    IN  /\ schedObs.steps < MaxSteps
        /\ schedObs.op \in {"init", "render"}
        /\ (~wide => up1) /\ (hold => ~wide /\ up2)
        /\ last' = pk[2]
        /\ gPluck' = pluck_noteOn(gPluck, pk[1], vel, gScale, port)
        /\ pluckObs' = [pluckObs EXCEPT !.op = "noteOn", !.idx = pluck_alloc(gPluck),
                                        !.midi = pk[1], !.vel = vel,
                                        !.noteOns = pluckObs.noteOns + 1,
                                        !.full = \A i \in Voices : gPluck[i].active]
        /\ schedObs' = [schedObs EXCEPT !.op = "trigger",
                                        !.step = (schedObs.step + 1) % 16,
                                        !.steps = schedObs.steps + 1,
                                        !.note = pk[1], !.held = hold]
        /\ UNCHANGED <<port, gScale, adsr, clockVars, quantVars, dlenVars, loopVars, fxVars, mixVars, panelVars, encVars, isrVars, detVars, ambVars, wobVars, envVars>>

\* onStep16(step) when rand01() >= p: nothing is started
Step16Rest ==
  /\ schedObs.steps < MaxSteps
  /\ schedObs.op \in {"init", "render"}
  /\ schedObs' = [schedObs EXCEPT !.op = "rest",
                                  !.step = (schedObs.step + 1) % 16,
                                  !.steps = schedObs.steps + 1]
  /\ UNCHANGED <<last, pluckVars, clockVars, quantVars, dlenVars, loopVars, fxVars, mixVars, panelVars, encVars, isrVars, detVars, ambVars, wobVars, envVars>>

\* the scale switch of a scene crossfade (scene_update at e >= 0.2): the current
\* scale becomes the scene's target scale
SceneScaleSwitch ==
  \E tgt \in SceneScales :
    /\ schedObs.switches < MaxSwitches
    /\ schedObs.op \in {"trigger", "rest"}
    /\ gScale' = tgt
    /\ schedObs' = [schedObs EXCEPT !.op = "scale", !.switches = schedObs.switches + 1]
    /\ UNCHANGED <<last, port, gPluck, adsr, pluckObs, clockVars, quantVars, dlenVars, loopVars, fxVars, mixVars, panelVars, encVars, isrVars, detVars, ambVars, wobVars, envVars>>

\* the blocks loop() renders up to the next 16th step: every voice is stepped
\* once per sample
RenderToNextStep ==
  \E n \in GapSamples :
    /\ schedObs.op \in {"trigger", "rest", "scale"}
    /\ gPluck' = RenderN(gPluck, adsr, n)
    /\ pluckObs' = [pluckObs EXCEPT !.op = "render"]
    /\ schedObs' = [schedObs EXCEPT !.op = "render"]
    /\ UNCHANGED <<last, port, gScale, adsr, clockVars, quantVars, dlenVars, loopVars, fxVars, mixVars, panelVars, encVars, isrVars, detVars, ambVars, wobVars, envVars>>

(***************************************************************************)
(* Control rate: loop(), the encoder pages, tempo tracking of the delay,   *)
(* scene crossfades                                                        *)
(*                                                                         *)
(* Of the program's state this part holds the parameters, the page, the    *)
(* clock, the delay tap (length, cursor, mode), the pad's mix and cutoff   *)
(* and the scene crossfade; the coefficients that delay_set_space,         *)
(* reverb_set_space, mood_set, tone_set and energy_set derive from the     *)
(* percent parameters, the gesture overlay and the audio path are outside  *)
(* it.  triMix is a binary32 in 1/TriOne, a cutoff is 1000 * ln(Hz), the    *)
(* crossfade position t and the eased position e are in 1/TQ.              *)
(***************************************************************************)
PAGE_VOLUME == 0
PAGE_TEMPO == 1
PAGE_SPACE == 2
PAGE_MOOD == 3
PAGE_TONE == 4
PAGE_ENERGY == 5
PAGE_SCENE == 6
PAGE_COUNT == 7

TQ == 2 ^ 10

LnHz400 == 5991         \* 1000 * ln(400):  the lowest scene cutoff
LnHz1200 == 7090        \* 1000 * ln(1200): Pad's initial lpfCutHz
Ln20 == 2996            \* 1000 * ln(20)

\* triMix values are binary32 numbers below 1, held as multiples of 1/TriOne
\* (every binary32 from 1/16 up is one); the literals 0.10f, 0.15f, 0.60f
TriOne == 2 ^ 27
Tri010 == 13421773
Tri015 == 20132660
Tri060 == 80530640

\* one unit in the last place of a binary32 of magnitude m / TriOne, in 1/TriOne:
\* 2^(e-23) for 2^e <= m / TriOne < 2^(e+1)
UlpTri(m) ==
  IF m >= 2 ^ 27 THEN 16 ELSE IF m >= 2 ^ 26 THEN 8 ELSE IF m >= 2 ^ 25 THEN 4
  ELSE IF m >= 2 ^ 24 THEN 2 ELSE 1

\* the binary32 nearest to x / TriOne (24-bit significand, ties to even)
Fl(x) == IF x >= 0 THEN RoundToUlp(x, UlpTri(x)) ELSE -RoundToUlp(-x, UlpTri(-x))

\* d * e for e in 1/TQ, truncated to 1/TriOne; exact at e = 0 and e = 1
MulE(d, e) ==
  LET m == (Abs(d) \div TQ) * e + ((Abs(d) % TQ) * e) \div TQ
  IN  IF d >= 0 THEN m ELSE -m

\* lerp(a, b, t) = a + (b - a) * t in binary32
lerpF(a, b, e) == Fl(a + Fl(MulE(Fl(b - a), e)))

\* mood_set: pad.triMix = 0.10f + 0.60f * k for k = moodPct * (1.0f / 100.0f); the
\* product and the sum are rounded once (exact for k = 0, 0.5 and 1)
MoodTriMix(m) == Fl(Tri010 + (Tri060 \div 100) * m + ((Tri060 % 100) * m) \div 100)

clampVolume(v) == constrain(v, 0, 100)
\* a tempo that is not limited
NoClampTempo(b) == b

clampTempo(b) == constrain(b, MinBpm, MaxBpm)

\* delay_init(dl, bpm, m, tone)
delay_init(bpm, m) ==
  [size |-> DELAY_MAX_SAMPLES, w |-> 0, dSamp |-> delay_samples_from_bpm(bpm, m),
   bpmCached |-> bpm, mode |-> m, inited |-> TRUE]

\* a tempo update that caches the tempo and keeps the old tap length
DelayUpdateKeepsLength(dl, bpm) ==
  IF ~dl.inited THEN dl
  ELSE IF bpm # dl.bpmCached THEN [dl EXCEPT !.bpmCached = bpm]
  ELSE dl

delay_update_tempo_if_changed(dl, bpm) ==
  IF ~dl.inited THEN dl
  ELSE IF bpm # dl.bpmCached
       THEN [dl EXCEPT !.bpmCached = bpm,
                       !.dSamp = delay_samples_from_bpm(bpm, dl.mode)]
       ELSE dl

delay_set_mode(dl, m) ==
  [dl EXCEPT !.mode = m, !.dSamp = delay_samples_from_bpm(dl.bpmCached, m)]

\* SceneTargets / SceneXfade / SceneScheduler as the statics start out
SceneTargets0 ==
  [scale |-> 0, triMix |-> 0, lpfCutHz |-> 0, spacePercent |-> 0,
   delayMode |-> 0, tempoBPM |-> 0]

SceneXfade0 ==
  [active |-> FALSE, tStartSmp |-> 0, tEndSmp |-> 0,
   start |-> SceneTargets0, target |-> SceneTargets0]

SceneScheduler0 ==
  [nextSceneAt |-> 0, minIntvSmp |-> 0, maxIntvSmp |-> 0, inited |-> FALSE]

\* what a scene start draws with rand01(): the target scale, 0.50f * rand01() of
\* the mix, the cutoff (400 * 20^r), space, delay mode, tempo factor f (1/1000),
\* the crossfade length and the interval to the next automatic scene
\* durSmp = (uint64_t)((10.0f + 10.0f * rand01()) * SR + 0.5f) for rand01() = r / 1000
SceneDurSmp(r) == (10 * SR * 1000 + 10 * SR * r + 500) \div 1000

SceneDraws ==
  [scale : {SCALE_D_DORIAN, SCALE_C_LYDIAN}, triMix : {3 * 2 ^ 24}, lpfCutHz : {LnHz400 + Ln20 - 1}, spacePercent : {70},
   delayMode : DelayModes, f : {950, 1049}, durSmp : {SceneDurSmp(0)}, jitter : {0}]

NoDraw ==
  [scale |-> SCALE_A_MINOR, triMix |-> 0, lpfCutHz |-> 0, spacePercent |-> 0,
   delayMode |-> DELAY_1_8, f |-> 0, durSmp |-> 0, jitter |-> 0]

\* the part of the program's state scene_update and applyEncoderDelta work on
Live == [params |-> params, gDelay |-> gDelay, pad |-> pad, gScene |-> gScene,
         gSceneSch |-> gSceneSch, gScale |-> gScale]

\* scene_update: the scheduler window is set up on the first call
SceneSchedInit(S, nowSmp, d) ==
  IF S.gSceneSch.inited THEN S
  ELSE [S EXCEPT !.gSceneSch =
          [nextSceneAt |-> nowSmp + 120 * SR + d.jitter,
           minIntvSmp |-> 120 * SR, maxIntvSmp |-> 240 * SR, inited |-> TRUE]]

SceneDue(S, nowSmp) ==
  /\ ~S.gScene.active
  /\ nowSmp >= (IF S.gSceneSch.inited THEN S.gSceneSch.nextSceneAt
                ELSE nowSmp + 120 * SR)

\* a scene start that does not wait for the running crossfade
SceneStartWhileFading(S, nowSmp, d) ==
  IF ~(nowSmp >= S.gSceneSch.nextSceneAt) THEN S
  ELSE [S EXCEPT
          !.gScene.active = TRUE,
          !.gScene.tStartSmp = nowSmp,
          !.gScene.tEndSmp = nowSmp + (IF d.durSmp # 0 THEN d.durSmp ELSE 1),
          !.gSceneSch.nextSceneAt = nowSmp + S.gSceneSch.minIntvSmp + d.jitter]

\* scene_update: a new scene starts when due and none is fading
SceneStart(S, nowSmp, d) ==
  IF ~(~S.gScene.active /\ nowSmp >= S.gSceneSch.nextSceneAt) THEN S
  ELSE [S EXCEPT
          !.gScene =
             [active |-> TRUE,
              tStartSmp |-> nowSmp,
              tEndSmp |-> nowSmp + (IF d.durSmp # 0 THEN d.durSmp ELSE 1),
              start |-> [scale |-> S.gScale, triMix |-> S.pad.triMix,
                         lpfCutHz |-> S.pad.lpfCutHz,
                         spacePercent |-> S.params.spacePercent,
                         delayMode |-> S.gDelay.mode,
                         tempoBPM |-> S.params.tempoBPM],
              target |-> [scale |-> d.scale, triMix |-> Fl(Tri015 + d.triMix),
                          lpfCutHz |-> d.lpfCutHz,
                          spacePercent |-> d.spacePercent,
                          delayMode |-> d.delayMode,
                          tempoBPM |-> constrain((S.params.tempoBPM * d.f + 500) \div 1000,
                                                 MinBpm, MaxBpm)]],
          !.gSceneSch.nextSceneAt = nowSmp + S.gSceneSch.minIntvSmp + d.jitter]

\* t = num / den of the running crossfade, in 1/TQ
SceneT(sc, nowSmp) ==
  IF sc.tEndSmp > sc.tStartSmp
  THEN LET num == IF nowSmp > sc.tEndSmp THEN sc.tEndSmp - sc.tStartSmp
                  ELSE nowSmp - sc.tStartSmp
       IN  (num * TQ) \div (sc.tEndSmp - sc.tStartSmp)
  ELSE 0

\* smooth(t) = t*t*(3 - 2t) on the clamped t
smooth(t) ==
  LET c == constrain(t, 0, TQ)
  IN  (((c * c) \div TQ) * (3 * TQ - 2 * c)) \div TQ

\* (int)(lerp(a, b, e) + 0.5) for non-negative a, b
lerpRound(a, b, e) == (a * TQ + (b - a) * e + TQ \div 2) \div TQ

\* a fade that is taken to be over at four fifths of its length
SceneEndsEarly(t) == 5 * t >= 4 * TQ

\* if (t >= 1.0f) gScene.active = false
SceneEnds(t) == t >= TQ

\* scene_update: the scale switches at e >= 0.2f
ScaleSwitchDue(e) == 5 * e >= TQ

\* a delay mode that switches at one tenth of the eased fade
DelaySwitchTooEarly(e) == 10 * e >= TQ

\* scene_update: the delay mode switches at e >= 0.8f
DelaySwitchDue(e) == 5 * e >= 4 * TQ

\* scene_update: the ramps of a running crossfade
SceneRamp(S, nowSmp) ==
  IF ~S.gScene.active THEN S
  ELSE
    LET sc == S.gScene
        t == SceneT(sc, nowSmp)
        e == smooth(t)
        tri == lerpF(sc.start.triMix, sc.target.triMix, e)
        cut == lerpRound(sc.start.lpfCutHz, sc.target.lpfCutHz, e)
        spc == constrain(lerpRound(sc.start.spacePercent, sc.target.spacePercent, e), 0, 100)
        bpm == constrain(lerpRound(sc.start.tempoBPM, sc.target.tempoBPM, e), MinBpm, MaxBpm)
        early == ScaleSwitchDue(e)
        late == DelaySwitchDue(e)
    IN  [S EXCEPT
           !.pad = [triMix |-> tri, lpfCutHz |-> cut, lp |-> cut],
           !.params.spacePercent = spc,
           !.params.tempoBPM = bpm,
           !.gScale = IF early THEN sc.target.scale ELSE S.gScale,
           !.gScene.start.scale = IF early THEN sc.target.scale ELSE sc.start.scale,
           !.gDelay = IF late /\ S.gDelay.mode # sc.target.delayMode
                      THEN delay_set_mode(S.gDelay, sc.target.delayMode)
                      ELSE S.gDelay,
           !.gScene.active = ~SceneEnds(t)]

scene_update(S, nowSmp, d) ==
  SceneRamp(SceneStart(SceneSchedInit(S, nowSmp, d), nowSmp, d), nowSmp)

\* applyEncoderDelta(steps) on page pg at time nowSmp
applyEncoderDelta(S, pg, steps, nowSmp, d) ==
  IF steps = 0 THEN S
  ELSE
    LET delta == IF steps > 0 THEN 1 ELSE -1
    IN  CASE pg = PAGE_VOLUME ->
               [S EXCEPT !.params.volumePercent = clampVolume(S.params.volumePercent + delta)]
          [] pg = PAGE_TEMPO ->
               [S EXCEPT !.params.tempoBPM = clampTempo(S.params.tempoBPM + delta)]
          [] pg = PAGE_SPACE ->
               [S EXCEPT !.params.spacePercent = constrain(S.params.spacePercent + delta, 0, 100)]
          [] pg = PAGE_MOOD ->
               LET m == constrain(S.params.moodPercent + delta, 0, 100)
               IN  [S EXCEPT !.params.moodPercent = m,
                             !.pad.triMix = MoodTriMix(m),
                             !.pad.lp = S.pad.lpfCutHz]
          [] pg = PAGE_TONE ->
               [S EXCEPT !.params.tonePercent = constrain(S.params.tonePercent + delta, 0, 100)]
          [] pg = PAGE_ENERGY ->
               [S EXCEPT !.params.energyPercent = constrain(S.params.energyPercent + delta, 0, 100)]
          [] OTHER ->
               scene_update([S EXCEPT !.gSceneSch.nextSceneAt = nowSmp], nowSmp, d)

nextPage(pg) == (pg + 1) % PAGE_COUNT

\* setup(): the parameters, the delay and the pad as loop() first finds them
ParamsBoot ==
  [volumePercent |-> 70, tempoBPM |-> DefaultBpm, spacePercent |-> 45,
   moodPercent |-> 50, tonePercent |-> 42, energyPercent |-> 50]

PadBoot == [triMix |-> MoodTriMix(50), lpfCutHz |-> LnHz1200, lp |-> LnHz1200]

LoopObsInit ==
  [pc |-> "head", it |-> 0, idle |-> 0, turns |-> 0, stale |-> FALSE, switched |-> FALSE]

\* the iterations of loop() in which the button is clicked, and those in which
\* the encoder is turned; the encoder is turned on the tempo and the scene page
ClickAllowed == loopObs.it < PreludeIters
TurnAllowed ==
  /\ loopObs.it < PreludeIters \/ loopObs.it % SlotEvery = 0
  /\ currentPage \in {PAGE_TEMPO, PAGE_SCENE}
  /\ loopObs.turns < MaxTurns

\* loop() up to the render: encoder, button, tempo tracking of clock and delay
LoopHead ==
  /\ loopObs.pc = "head"
  /\ loopObs.it < MaxIters
  /\ loopObs.idle < MaxIdleIters
  /\ \E steps \in {-1, 0, 1}, click \in BOOLEAN :
       /\ steps # 0 => TurnAllowed
       /\ click => ClickAllowed
       /\ \E d \in (IF steps # 0 /\ currentPage = PAGE_SCENE
                         /\ SceneDue([Live EXCEPT !.gSceneSch.nextSceneAt = gClock.smpNow],
                                     gClock.smpNow)
                     THEN SceneDraws ELSE {NoDraw}) :
            LET S1 == applyEncoderDelta(Live, currentPage, steps, gClock.smpNow, d)
            IN  /\ currentPage' = IF click THEN nextPage(currentPage) ELSE currentPage
                /\ params' = S1.params
                /\ pad' = S1.pad
                /\ gScene' = S1.gScene
                /\ gSceneSch' = S1.gSceneSch
                /\ gScale' = S1.gScale
                /\ gClock' = clock_update_tempo_if_changed(gClock, S1.params.tempoBPM)
                /\ gDelay' = delay_update_tempo_if_changed(S1.gDelay, S1.params.tempoBPM)
                /\ loopObs' = [loopObs EXCEPT
                                 !.pc = "render",
                                 !.turns = loopObs.turns + (IF steps # 0 THEN 1 ELSE 0)]
  /\ UNCHANGED <<stepLog, clockObs, quantVars, dlenVars, port, gPluck, adsr, pluckObs,
                 schedVars, fxVars, mixVars, panelVars, encVars, isrVars, detVars, ambVars, wobVars, envVars>>

\* loop() from the render on: CHUNK samples pass through the delay, the clock
\* advances by the block, scene_update runs at the new sample time
LoopTail ==
  /\ loopObs.pc = "render"
  /\ LET c1 == clock_advance_block(gClock, CHUNK)[1]
         S0 == [Live EXCEPT !.gDelay.w = (gDelay.w + CHUNK) % gDelay.size]
     IN  \E d \in (IF SceneDue(S0, c1.smpNow) THEN SceneDraws ELSE {NoDraw}) :
           LET S1 == scene_update(S0, c1.smpNow, d)
           IN  /\ gClock' = c1
               /\ params' = S1.params
               /\ pad' = S1.pad
               /\ gScene' = S1.gScene
               /\ gSceneSch' = S1.gSceneSch
               /\ gScale' = S1.gScale
               /\ gDelay' = S1.gDelay
               /\ loopObs' = [loopObs EXCEPT
                                !.pc = "head",
                                !.it = loopObs.it + 1,
                                !.idle = loopObs.idle + (IF gScene.active THEN 0 ELSE 1),
                                !.stale = S1.gDelay.dSamp #
                                            delay_samples_from_bpm(S1.params.tempoBPM,
                                                                   S1.gDelay.mode),
                                !.switched = S1.gDelay.mode # gDelay.mode]
  /\ UNCHANGED <<currentPage, stepLog, clockObs, quantVars, dlenVars, port, gPluck, adsr,
                 pluckObs, schedVars, fxVars, mixVars, panelVars, encVars, isrVars, detVars, ambVars, wobVars, envVars>>

(***************************************************************************)
(* Effects: the ring-buffer writes of delay_step, comb_step, allpass_step  *)
(*                                                                         *)
(* A ring holds int16 samples.  A float sample is held in units of         *)
(* 1 / (SampleOne * Sub), i.e. with Sub steps per int16 step, so that      *)
(* rd * (1/32767) is rd * Sub and (int16_t)(wr * 32767) truncates wr / Sub *)
(* toward zero.  Coefficients (send, fb, damp, g, the one-pole a) are in   *)
(* 1/1000.  The rings are RingLen samples long in place of the program's   *)
(* 32768, 1117..1361 and 225/341, so that written samples are read back    *)
(* within a few steps.                                                     *)
(***************************************************************************)
SampleOne == 32767
Sub == 2 ^ 2
One == SampleOne * Sub          \* 1.0f
ToneA == 329                    \* lp_set(dl.tone, 2800 Hz): 1 - exp(-TAU * 2800 / SR)

\* (int16_t) of a value given in int16 steps: values beyond the type wrap
Int16(v) == ((v + 2 ^ 15) % 2 ^ 16) - 2 ^ 15

\* a * b / 1000 for a coefficient a in 1/1000, truncated toward zero
MulK(a, b) == IF a * b >= 0 THEN (a * b) \div 1000 ELSE -((-(a * b)) \div 1000)

\* (int16_t)(wr * 32767.0f)
ToInt16(wr) == Int16(IF wr >= 0 THEN wr \div Sub ELSE -((-wr) \div Sub))

\* a write that is not limited
NoClamp(wr) == wr

\* if (wr > 1.0f) wr = 1.0f; if (wr < -1.0f) wr = -1.0f;
ClampUnit(wr) == IF wr > One THEN One ELSE IF wr < -One THEN -One ELSE wr

Zeros(n) == [i \in 1..n |-> 0]

\* delay_init on the short ring, followed by delay_set_space(45)
FxDelayBoot ==
  [buf |-> Zeros(RingLen + 1), size |-> RingLen + 1, w |-> 0, dSamp |-> RingLen,
   send |-> 503, fb |-> 369, toneA |-> ToneA, toneY |-> 0, inited |-> TRUE]

\* reverb_init and reverb_set_space(45) followed by mood_set(50), for one comb
FxCombBoot ==
  [buf |-> Zeros(RingLen), size |-> RingLen, w |-> 0, fb |-> 631, damp |-> 267, filt |-> 0]

FxApBoot == [buf |-> Zeros(RingLen), size |-> RingLen, w |-> 0, g |-> 500]

\* delay_step(dl, dry): <<dl after the step, value before the clamp>>
delay_step(dl, dry) ==
  IF ~dl.inited THEN <<dl, 0>>
  ELSE LET r == (dl.w + dl.size - dl.dSamp) % dl.size
           delayed == dl.buf[r + 1] * Sub
           y == dl.toneY + MulK(dl.toneA, delayed - dl.toneY)       \* lp_process
           toWrite == MulK(dl.send, dry) + MulK(dl.fb, y)
       IN  <<[dl EXCEPT !.toneY = y,
                        !.buf[dl.w + 1] = ToInt16(ClampUnit(toWrite)),
                        !.w = IF dl.w + 1 >= dl.size THEN 0 ELSE dl.w + 1],
             toWrite>>

\* comb_step(c, x)
comb_step(c, x) ==
  LET y == c.buf[c.w + 1] * Sub
      filt == c.filt + MulK(c.damp, y - c.filt)
      wr == x + MulK(c.fb, filt)
  IN  <<[c EXCEPT !.filt = filt,
                  !.buf[c.w + 1] = ToInt16(ClampUnit(wr)),
                  !.w = IF c.w + 1 >= c.size THEN 0 ELSE c.w + 1],
        wr>>

\* allpass_step(a, x)
allpass_step(a, x) ==
  LET z == a.buf[a.w + 1] * Sub
      y == -x + z
      wr == x + MulK(a.g, y)
  IN  <<[a EXCEPT !.buf[a.w + 1] = ToInt16(ClampUnit(wr)),
                  !.w = IF a.w + 1 >= a.size THEN 0 ELSE a.w + 1],
        wr>>

\* input samples: one far below -1.0 and one inside the range
DryInputs == {-3 * One, (2 * One) \div 3}

\* coefficient settings: the ones of Space 45, and ones beyond every design limit
\* (send 2.0, feedback 1.5, no damping)
FxSettings ==
  { [send |-> 503, fb |-> 369, combFb |-> 631, damp |-> 267, g |-> 500, dSamp |-> RingLen],
    [send |-> 2000, fb |-> 1500, combFb |-> 1500, damp |-> 1000, g |-> 1500, dSamp |-> 1] }

FxObsInit == [op |-> "init", steps |-> 0, raw |-> 0, stored |-> 0]

DelayStep ==
  \E dry \in DryInputs :
    LET r == delay_step(fxDelay, dry)
    IN  /\ fxObs.steps < MaxFxSteps
        /\ fxDelay' = r[1]
        /\ fxObs' = [op |-> "delay", steps |-> fxObs.steps + 1, raw |-> r[2],
                     stored |-> r[1].buf[fxDelay.w + 1]]
        /\ UNCHANGED <<fxComb, fxAp, clockVars, quantVars, dlenVars, pluckVars, schedVars,
                       loopVars, mixVars, panelVars, encVars, isrVars, detVars, ambVars, wobVars, envVars>>

CombStep ==
  \E x \in DryInputs :
    LET r == comb_step(fxComb, x)
    IN  /\ fxObs.steps < MaxFxSteps
        /\ fxComb' = r[1]
        /\ fxObs' = [op |-> "comb", steps |-> fxObs.steps + 1, raw |-> r[2],
                     stored |-> r[1].buf[fxComb.w + 1]]
        /\ UNCHANGED <<fxDelay, fxAp, clockVars, quantVars, dlenVars, pluckVars, schedVars,
                       loopVars, mixVars, panelVars, encVars, isrVars, detVars, ambVars, wobVars, envVars>>

AllpassStep ==
  \E x \in DryInputs :
    LET r == allpass_step(fxAp, x)
    IN  /\ fxObs.steps < MaxFxSteps
        /\ fxAp' = r[1]
        /\ fxObs' = [op |-> "allpass", steps |-> fxObs.steps + 1, raw |-> r[2],
                     stored |-> r[1].buf[fxAp.w + 1]]
        /\ UNCHANGED <<fxDelay, fxComb, clockVars, quantVars, dlenVars, pluckVars, schedVars,
                       loopVars, mixVars, panelVars, encVars, isrVars, detVars, ambVars, wobVars, envVars>>

\* a parameter change between steps: delay_set_space / reverb_set_space / the
\* gesture overlay / a new tap length give the lines new coefficients
SetFxParams ==
  \E k \in FxSettings :
    /\ fxObs.steps < MaxFxSteps
    /\ fxObs.op # "params"
    /\ fxDelay' = [fxDelay EXCEPT !.send = k.send, !.fb = k.fb, !.dSamp = k.dSamp]
    /\ fxComb' = [fxComb EXCEPT !.fb = k.combFb, !.damp = k.damp]
    /\ fxAp' = [fxAp EXCEPT !.g = k.g]
    /\ fxObs' = [fxObs EXCEPT !.op = "params", !.steps = fxObs.steps + 1]
    /\ UNCHANGED <<clockVars, quantVars, dlenVars, pluckVars, schedVars, loopVars, mixVars, panelVars, encVars, isrVars, detVars, ambVars, wobVars, envVars>>

(***************************************************************************)
(* FX mix: Space, Mood and the gesture overlay                             *)
(*                                                                         *)
(* Sends, wets, feedbacks and damps are in 1/CoefOne, the gesture boosts   *)
(* in 1/1000, the gesture envelope in 1/GQ.  sqrtf is the integer square   *)
(* root at that resolution.  Of scene_update this part takes the space     *)
(* percent it hands to delay_set_space: a running crossfade moves it by    *)
(* at most one per block, inside the clamp 0..100.  The pad's low-pass is   *)
(* held as the cutoff lp_set was last called with (1000 * ln Hz).          *)
(***************************************************************************)
CoefOne == 10 ^ 4
GQ == 10 ^ 5
GestureThreshold == 5 * (GQ \div 10 ^ 4)      \* 0.0005f
AlphaK == 1096          \* 1 - expf(-CHUNK / (SR * 0.05)), in 1/CoefOne

RECURSIVE ISqrtIn(_, _, _)
ISqrtIn(lo, hi, x) ==
  IF lo >= hi THEN lo
  ELSE LET mid == (lo + hi + 1) \div 2
       IN  IF mid * mid <= x THEN ISqrtIn(mid, hi, x) ELSE ISqrtIn(lo, mid - 1, x)

\* k = sqrtf(t) for t = spacePct clamped to 0..100, times 0.01f
SpaceK(spacePct) ==
  LET pct == IF spacePct <= 0 THEN 0 ELSE IF spacePct >= 100 THEN 100 ELSE spacePct
  IN  ISqrtIn(0, CoefOne, pct * 10 ^ 6)

\* a comb feedback that rises more steeply with Space and has no cap
ReverbSpaceNoCap(r, spacePct) ==
  LET k == SpaceK(spacePct)
  IN  [r EXCEPT !.c = [i \in 0..3 |-> [fb |-> 4500 + (57 * k) \div 100,
                                        damp |-> 1500 + (20 * k) \div 100]],
                !.baseSend = (70 * k) \div 100, !.baseWet = (35 * k) \div 100,
                !.send = (70 * k) \div 100, !.wet = (35 * k) \div 100]

reverb_set_space(r, spacePct) ==
  LET k == SpaceK(spacePct)
      fb0 == 4500 + (27 * k) \div 100
      fb == IF fb0 > 7500 THEN 7500 ELSE fb0
      damp == 1500 + (20 * k) \div 100
  IN  [r EXCEPT !.c = [i \in 0..3 |-> [fb |-> fb, damp |-> damp]],
                !.baseSend = (70 * k) \div 100, !.baseWet = (35 * k) \div 100,
                !.send = (70 * k) \div 100, !.wet = (35 * k) \div 100]

\* delay_set_space(dl, spacePct), which also sets the reverb; M = [dl, rv]
delay_set_space(M, spacePct) ==
  LET k == SpaceK(spacePct)
      fb0 == (55 * k) \div 100
  IN  [dl |-> [baseSend |-> (75 * k) \div 100, baseWet |-> (55 * k) \div 100,
               send |-> (75 * k) \div 100, wet |-> (55 * k) \div 100,
               fb |-> IF fb0 > 6000 THEN 6000 ELSE fb0],
       rv |-> reverb_set_space(M.rv, spacePct)]

\* mood_set, the reverb part: each comb's damp is averaged with the mood's damp
mood_set(rv, moodPct) ==
  LET m == constrain(moodPct, 0, 100)
      moodDamp == 3500 - 20 * m
  IN  [rv EXCEPT !.c = [i \in 0..3 |-> [rv.c[i] EXCEPT !.damp = (rv.c[i].damp + moodDamp) \div 2]]]

\* the statics before setup()
DelayMix0 == [baseSend |-> 0, baseWet |-> 0, send |-> 0, wet |-> 0, fb |-> 0]
ReverbMix0 ==
  [baseSend |-> 0, baseWet |-> 0, send |-> 0, wet |-> 0,
   c |-> [i \in 0..3 |-> [fb |-> 6200, damp |-> 2200]]]
GestureCtrl0 ==
  [nextAt |-> 0, active |-> FALSE, tStart |-> 0, tAtkEnd |-> 0, tRelStart |-> 0, tEnd |-> 0,
   env |-> 0, cutBoostOct |-> 500, fxSendBoost |-> 500, fxWetBoost |-> 350]

\* the mix after delay_set_space(space) and mood_set(mood), as setup() calls them
MixOf(space, mood) ==
  LET M == delay_set_space([dl |-> DelayMix0, rv |-> ReverbMix0], space)
  IN  [M EXCEPT !.rv = mood_set(M.rv, mood)]

\* what a gesture draws with rand01(): the time to the next gesture (the least
\* samplesFromExp returns, and sixteen blocks), the attack and release lengths
\* (0.5 s, 2.5 s) and the boosts
GestureDraws ==
  [gap : {1, 16 * CHUNK}, aS : {SR \div 2}, rS : {(5 * SR) \div 2},
   cutBoostOct : {800}, fxSendBoost : {700}, fxWetBoost : {500}]
NoGestureDraw ==
  [gap |-> 1, aS |-> 1, rS |-> 1, cutBoostOct |-> 0, fxSendBoost |-> 0, fxWetBoost |-> 0]

\* gesture_update_and_apply: a gesture is due
GestureStarts(g, nowSmp) == ~g.active /\ g.nextAt # 0 /\ nowSmp >= g.nextAt

\* a schedule that starts the due gesture over the running one
GestureScheduleOverlapping(g, nowSmp, d) ==
  LET g1 == IF g.nextAt = 0 THEN [g EXCEPT !.nextAt = nowSmp + d.gap] ELSE g
  IN  IF nowSmp >= g1.nextAt
      THEN [g1 EXCEPT !.tStart = nowSmp,
                      !.tAtkEnd = nowSmp + (IF d.aS # 0 THEN d.aS ELSE 1),
                      !.tRelStart = nowSmp + (IF d.aS # 0 THEN d.aS ELSE 1),
                      !.tEnd = nowSmp + (IF d.aS # 0 THEN d.aS ELSE 1)
                                      + (IF d.rS # 0 THEN d.rS ELSE 1),
                      !.env = 0, !.active = TRUE,
                      !.nextAt = nowSmp + d.gap]
      ELSE g1

\* gesture_update_and_apply: the seeding of nextAt and the start of a due gesture
GestureSchedule(g, nowSmp, d) ==
  LET g1 == IF g.nextAt = 0 THEN [g EXCEPT !.nextAt = nowSmp + d.gap] ELSE g
  IN  IF ~g1.active /\ nowSmp >= g1.nextAt
      THEN [g1 EXCEPT !.tStart = nowSmp,
                      !.tAtkEnd = nowSmp + (IF d.aS # 0 THEN d.aS ELSE 1),
                      !.tRelStart = nowSmp + (IF d.aS # 0 THEN d.aS ELSE 1),
                      !.tEnd = nowSmp + (IF d.aS # 0 THEN d.aS ELSE 1)
                                      + (IF d.rS # 0 THEN d.rS ELSE 1),
                      !.env = 0, !.active = TRUE,
                      !.cutBoostOct = d.cutBoostOct,
                      !.fxSendBoost = d.fxSendBoost, !.fxWetBoost = d.fxWetBoost,
                      !.nextAt = nowSmp + d.gap]
      ELSE g1

\* the raw envelope u(t) in 1/GQ, and the gesture after its end has been noticed
GestureRaw(g, nowSmp) ==
  IF ~g.active THEN <<0, g>>
  ELSE IF nowSmp < g.tAtkEnd
       THEN <<(((nowSmp - g.tStart) * CoefOne) \div (g.tAtkEnd - g.tStart)) * (GQ \div CoefOne), g>>
  ELSE IF nowSmp < g.tEnd
       THEN <<GQ - (((nowSmp - g.tRelStart) * CoefOne) \div (g.tEnd - g.tRelStart))
                     * (GQ \div CoefOne), g>>
  ELSE <<0, [g EXCEPT !.active = FALSE, !.env = 0]>>

\* base * (1.0f + boost * e)
Boosted(base, boost, e) == (base * (CoefOne + (boost * e) \div (GQ \div 10))) \div CoefOne

\* an overlay that adds the boost to the base
GestureApplyAdditive(M, g, e) ==
  IF e > GestureThreshold
  THEN [M EXCEPT !.dl.send = M.dl.baseSend + (g.fxSendBoost * e) \div (GQ \div 10),
                 !.dl.wet = M.dl.baseWet + (g.fxWetBoost * e) \div (GQ \div 10),
                 !.rv.send = M.rv.baseSend + (g.fxSendBoost * e) \div (GQ \div 10),
                 !.rv.wet = M.rv.baseWet + (g.fxWetBoost * e) \div (GQ \div 10)]
  ELSE [M EXCEPT !.dl.send = M.dl.baseSend, !.dl.wet = M.dl.baseWet,
                 !.rv.send = M.rv.baseSend, !.rv.wet = M.rv.baseWet]

\* an overlay that leaves the sends and wets alone once the envelope is down
GestureApplyNoRestore(M, g, e) ==
  IF e > GestureThreshold
  THEN [M EXCEPT !.dl.send = Boosted(M.dl.baseSend, g.fxSendBoost, e),
                 !.dl.wet = Boosted(M.dl.baseWet, g.fxWetBoost, e),
                 !.rv.send = Boosted(M.rv.baseSend, g.fxSendBoost, e),
                 !.rv.wet = Boosted(M.rv.baseWet, g.fxWetBoost, e)]
  ELSE M

\* gesture_update_and_apply: the overlay on the sends and wets
GestureApply(M, g, e) ==
  IF e > GestureThreshold
  THEN [M EXCEPT !.dl.send = Boosted(M.dl.baseSend, g.fxSendBoost, e),
                 !.dl.wet = Boosted(M.dl.baseWet, g.fxWetBoost, e),
                 !.rv.send = Boosted(M.rv.baseSend, g.fxSendBoost, e),
                 !.rv.wet = Boosted(M.rv.baseWet, g.fxWetBoost, e)]
  ELSE [M EXCEPT !.dl.send = M.dl.baseSend, !.dl.wet = M.dl.baseWet,
                 !.rv.send = M.rv.baseSend, !.rv.wet = M.rv.baseWet]

\* 1000 * ln(2) and 1000 * ln(8000)
Ln2 == 693
LnHz8000 == 8987

\* gesture_update_and_apply: the overlay on the pad's low-pass,
\* effCut = pad.lpfCutHz * powf(2.0f, cutBoostOct * e) clamped to 400..8000 Hz;
\* the branch for e <= 0.0005f leaves pad.lp alone
GesturePad(pd, g, e) ==
  IF e > GestureThreshold
  THEN [pd EXCEPT !.lp = constrain(pd.lpfCutHz + (((g.cutBoostOct * e) \div 1000) * Ln2) \div GQ,
                                   LnHz400, LnHz8000)]
  ELSE pd

\* gesture_update_and_apply(nowSmp): <<gGesture, [dl, rv], pad>> after the call
gesture_update_and_apply(g, M, pd, nowSmp, d) ==
  LET g1 == GestureSchedule(g, nowSmp, d)
      ur == GestureRaw(g1, nowSmp)
      u == ur[1]
      g2 == ur[2]
      diff == AlphaK * (u - g2.env)
      env == g2.env + (IF diff >= 0 THEN diff \div CoefOne ELSE -((-diff) \div CoefOne))
      g3 == [g2 EXCEPT !.env = env]
  IN  <<g3, GestureApply(M, g3, env), GesturePad(pd, g3, env)>>

MixObsInit ==
  [pc |-> "head", now |-> 0, blocks |-> 0, edits |-> 0, moves |-> 0, boosted |-> FALSE]

\* the run starts after DialBlocks iterations of loop() in which the user has gone
\* to the Space page and may have dialled Space to one of these values
DialBlocks == 64
DialledSpace == {0, 99}

MixSlotNow == mixObs.blocks % MixSlot = 0

\* loop() up to the render, for the mix: the encoder on the Space and Mood pages
\* and the button
MixHead ==
  /\ mixObs.pc = "head"
  /\ mixObs.blocks < MaxMixBlocks
  /\ \E steps \in {-1, 0, 1}, click \in BOOLEAN :
       /\ steps # 0 => MixSlotNow /\ mixObs.edits < MaxMixEdits
       /\ click => MixSlotNow /\ currentPage = PAGE_SPACE
       /\ LET S1 == applyEncoderDelta(Live, currentPage, steps, mixObs.now, NoDraw)
              P == S1.params
              M == [dl |-> dlMix, rv |-> gReverb]
              M1 == IF steps = 0 THEN M
                    ELSE IF currentPage = PAGE_SPACE THEN delay_set_space(M, P.spacePercent)
                    ELSE IF currentPage = PAGE_MOOD THEN [M EXCEPT !.rv = mood_set(M.rv, P.moodPercent)]
                    ELSE M
          IN  /\ params' = P
              /\ pad' = S1.pad
              /\ dlMix' = M1.dl
              /\ gReverb' = M1.rv
              /\ currentPage' = IF click THEN nextPage(currentPage) ELSE currentPage
              /\ mixObs' = [mixObs EXCEPT !.pc = "tail",
                                           !.edits = mixObs.edits + (IF steps # 0 THEN 1 ELSE 0)]
  /\ UNCHANGED <<gGesture, gDelay, gScene, gSceneSch, loopObs, clockVars, quantVars,
                 dlenVars, pluckVars, schedVars, fxVars, panelVars, encVars, isrVars, detVars, ambVars, wobVars, envVars>>

\* loop() from the render on, for the mix: the sample time advances by the block,
\* scene_update hands the crossfade's space percent to delay_set_space when it
\* differs, gesture_update_and_apply runs
MixTail ==
  /\ mixObs.pc = "tail"
  /\ LET now == mixObs.now + CHUNK
         M == [dl |-> dlMix, rv |-> gReverb]
     IN  \E move \in {-1, 0, 1} :
           /\ move # 0 => MixSlotNow /\ mixObs.moves < MaxSceneMoves
           /\ \E d \in (IF GestureStarts(gGesture, now)
                        THEN GestureDraws ELSE {NoGestureDraw}) :
                LET spc == constrain(params.spacePercent + move, 0, 100)
                    M1 == IF spc # params.spacePercent THEN delay_set_space(M, spc) ELSE M
                    r == gesture_update_and_apply(gGesture, M1, pad, now, d)
                IN  /\ params' = [params EXCEPT !.spacePercent = spc]
                    /\ gGesture' = r[1]
                    /\ dlMix' = r[2].dl
                    /\ gReverb' = r[2].rv
                    /\ pad' = r[3]
                    /\ mixObs' = [mixObs EXCEPT
                                    !.pc = "head", !.now = now,
                                    !.blocks = mixObs.blocks + 1,
                                    !.moves = mixObs.moves + (IF move # 0 THEN 1 ELSE 0),
                                    !.boosted = mixObs.boosted \/ r[1].env > GestureThreshold]
  /\ UNCHANGED <<currentPage, gDelay, gScene, gSceneSch, loopObs, clockVars, quantVars,
                 dlenVars, pluckVars, schedVars, fxVars, panelVars, encVars, isrVars, detVars, ambVars, wobVars, envVars>>

(***************************************************************************)
(* The panel: loop() with a user who first dials every parameter to one    *)
(* end of its range (turning until a turn changes nothing, then clicking   *)
(* on to the next page), then starts a scene from the Scene page and       *)
(* clicks and turns while the crossfade runs.                              *)
(***************************************************************************)
\* what takeEncoderDelta can hand to applyEncoderDelta for a turn in direction dir
EncoderSteps(dir) == {dir, dir * 2 ^ 30}

\* the draws of the scene the user starts: rand01() = 0 for the mix target (0.15f)
PanelDraws ==
  [scale : {SCALE_D_DORIAN}, triMix : {0}, lpfCutHz : {LnHz400}, spacePercent : {10},
   delayMode : {DELAY_1_8}, f : {1049}, durSmp : {SceneDurSmp(0)}, jitter : {0}]

PanelObsInit ==
  [pc |-> "head", it |-> 0, dir |-> 1, phase |-> "dial", hit |-> FALSE, since |-> 0,
   turns |-> 0]

\* the encoder steps and the click of this iteration
PanelInputs ==
  IF panelObs.phase = "dial"
  THEN IF currentPage = PAGE_SCENE THEN {<<s, FALSE>> : s \in EncoderSteps(panelObs.dir)}
       ELSE IF panelObs.hit THEN {<<0, TRUE>>}
       ELSE {<<s, FALSE>> : s \in EncoderSteps(panelObs.dir)}
  ELSE {<<s, c>> \in {-1, 0, 1} \X BOOLEAN :
          /\ c => panelObs.since <= PanelClickIters
          /\ s # 0 => /\ panelObs.since % PanelSlot = 0
                      /\ panelObs.turns < MaxPanelTurns}

\* loop() up to the render
PanelHead ==
  /\ panelObs.pc = "head"
  /\ panelObs.it < MaxPanelIters
  /\ \E in \in PanelInputs :
       LET steps == in[1]
           click == in[2]
       IN  \E d \in (IF steps # 0 /\ currentPage = PAGE_SCENE
                          /\ SceneDue([Live EXCEPT !.gSceneSch.nextSceneAt = gClock.smpNow],
                                      gClock.smpNow)
                     THEN PanelDraws ELSE {NoDraw}) :
             LET S1 == applyEncoderDelta(Live, currentPage, steps, gClock.smpNow, d)
             IN  /\ currentPage' = IF click THEN nextPage(currentPage) ELSE currentPage
                 /\ params' = S1.params
                 /\ pad' = S1.pad
                 /\ gScene' = S1.gScene
                 /\ gSceneSch' = S1.gSceneSch
                 /\ gScale' = S1.gScale
                 /\ gClock' = clock_update_tempo_if_changed(gClock, S1.params.tempoBPM)
                 /\ gDelay' = delay_update_tempo_if_changed(S1.gDelay, S1.params.tempoBPM)
                 /\ panelObs' = [panelObs EXCEPT
                                   !.pc = "render",
                                   !.phase = IF currentPage = PAGE_SCENE THEN "free"
                                             ELSE panelObs.phase,
                                   !.hit = steps # 0 /\ S1.params = params,
                                   !.turns = panelObs.turns +
                                               (IF steps # 0 /\ panelObs.phase = "free"
                                                THEN 1 ELSE 0)]
  /\ UNCHANGED <<stepLog, clockObs, quantVars, dlenVars, port, gPluck, adsr, pluckObs,
                 schedVars, loopObs, fxVars, mixVars, encVars, isrVars, detVars, ambVars, wobVars, envVars>>

\* loop() from the render on
PanelTail ==
  /\ panelObs.pc = "render"
  /\ LET c1 == clock_advance_block(gClock, CHUNK)[1]
         S0 == [Live EXCEPT !.gDelay.w = (gDelay.w + CHUNK) % gDelay.size]
     IN  \E d \in (IF SceneDue(S0, c1.smpNow) THEN PanelDraws ELSE {NoDraw}) :
           LET S1 == scene_update(S0, c1.smpNow, d)
           IN  /\ gClock' = c1
               /\ params' = S1.params
               /\ pad' = S1.pad
               /\ gScene' = S1.gScene
               /\ gSceneSch' = S1.gSceneSch
               /\ gScale' = S1.gScale
               /\ gDelay' = S1.gDelay
               /\ panelObs' = [panelObs EXCEPT
                                 !.pc = "head",
                                 !.it = panelObs.it + 1,
                                 !.since = panelObs.since +
                                             (IF panelObs.phase = "free" THEN 1 ELSE 0)]
  /\ UNCHANGED <<currentPage, stepLog, clockObs, quantVars, dlenVars, port, gPluck, adsr,
                 pluckObs, schedVars, loopObs, fxVars, mixVars, encVars, isrVars, detVars, ambVars, wobVars, envVars>>

(***************************************************************************)
(* The polled encoder: loop() calls readEncoderStep and takeEncoderDelta,  *)
(* one machine step per statement; the pins change and the button          *)
(* interrupt fires between any two statements (the interrupt only while    *)
(* interrupts are enabled).                                                *)
(***************************************************************************)
ENC_TAB == <<0, -1, 1, 0, 1, 0, 0, -1, -1, 0, 0, 1, 0, 1, -1, 0>>

\* the pin pairs one edge away from ab (one of the two pins changes)
PinEdges(ab) == {(ab + 2) % 4, IF ab % 2 = 0 THEN ab + 1 ELSE ab - 1}

TakeWithoutClear(enc) == [d |-> enc, encDelta |-> enc]

\* the value takeEncoderDelta returns and the value it leaves in encDelta
takeEncoderDelta(enc) == [d |-> enc, encDelta |-> 0]

\* added: sum of the increments made to encDelta; taken: sum of the values returned
EncObsInit ==
  [pc |-> "readA", a |-> 0, b |-> 0, d |-> 0, irq |-> TRUE, added |-> 0, taken |-> 0,
   edges |-> 0, presses |-> 0]

EncEdge ==
  /\ encObs.edges < MaxEncEdges
  /\ \E ab \in PinEdges(encPins) : encPins' = ab
  /\ encObs' = [encObs EXCEPT !.edges = @ + 1]
  /\ UNCHANGED <<encPrev, encDelta, btnRaw, isrVars, detVars, ambVars, wobVars, envVars>>
  /\ UNCHANGED <<clockVars, quantVars, dlenVars, pluckVars, schedVars, loopVars, fxVars, mixVars, panelVars, isrVars, detVars, ambVars, wobVars, envVars>>

onEncButton ==
  /\ encObs.irq
  /\ encObs.presses < MaxPresses
  /\ btnRaw' = TRUE
  /\ encObs' = [encObs EXCEPT !.presses = @ + 1]
  /\ UNCHANGED <<encPins, encPrev, encDelta, isrVars, detVars, ambVars, wobVars, envVars>>
  /\ UNCHANGED <<clockVars, quantVars, dlenVars, pluckVars, schedVars, loopVars, fxVars, mixVars, panelVars, isrVars, detVars, ambVars, wobVars, envVars>>

\* readEncoderStep: a = digitalRead(ENC_A)
EncReadA ==
  /\ encObs.pc = "readA"
  /\ encObs' = [encObs EXCEPT !.pc = "readB", !.a = encPins \div 2]
  /\ UNCHANGED <<encPins, encPrev, encDelta, btnRaw, isrVars, detVars, ambVars, wobVars, envVars>>
  /\ UNCHANGED <<clockVars, quantVars, dlenVars, pluckVars, schedVars, loopVars, fxVars, mixVars, panelVars, isrVars, detVars, ambVars, wobVars, envVars>>

\* readEncoderStep: b = digitalRead(ENC_B)
EncReadB ==
  /\ encObs.pc = "readB"
  /\ encObs' = [encObs EXCEPT !.pc = "add", !.b = encPins % 2]
  /\ UNCHANGED <<encPins, encPrev, encDelta, btnRaw, isrVars, detVars, ambVars, wobVars, envVars>>
  /\ UNCHANGED <<clockVars, quantVars, dlenVars, pluckVars, schedVars, loopVars, fxVars, mixVars, panelVars, isrVars, detVars, ambVars, wobVars, envVars>>

\* readEncoderStep: encDelta += ENC_TAB[(encPrev << 2) | cur]; encPrev = cur
EncAdd ==
  /\ encObs.pc = "add"
  /\ LET cur == 2 * encObs.a + encObs.b
         inc == ENC_TAB[4 * encPrev + cur + 1]
     IN /\ encDelta' = encDelta + inc
        /\ encPrev' = cur
        /\ encObs' = [encObs EXCEPT !.pc = "cli", !.added = @ + inc]
  /\ UNCHANGED <<encPins, btnRaw, isrVars, detVars, ambVars, wobVars, envVars>>
  /\ UNCHANGED <<clockVars, quantVars, dlenVars, pluckVars, schedVars, loopVars, fxVars, mixVars, panelVars, isrVars, detVars, ambVars, wobVars, envVars>>

\* takeEncoderDelta: noInterrupts()
TakeCli ==
  /\ encObs.pc = "cli"
  /\ encObs' = [encObs EXCEPT !.pc = "load", !.irq = FALSE]
  /\ UNCHANGED <<encPins, encPrev, encDelta, btnRaw, isrVars, detVars, ambVars, wobVars, envVars>>
  /\ UNCHANGED <<clockVars, quantVars, dlenVars, pluckVars, schedVars, loopVars, fxVars, mixVars, panelVars, isrVars, detVars, ambVars, wobVars, envVars>>

\* takeEncoderDelta: d = encDelta
TakeLoad ==
  /\ encObs.pc = "load"
  /\ encObs' = [encObs EXCEPT !.pc = "clear", !.d = takeEncoderDelta(encDelta).d]
  /\ UNCHANGED <<encPins, encPrev, encDelta, btnRaw, isrVars, detVars, ambVars, wobVars, envVars>>
  /\ UNCHANGED <<clockVars, quantVars, dlenVars, pluckVars, schedVars, loopVars, fxVars, mixVars, panelVars, isrVars, detVars, ambVars, wobVars, envVars>>

\* takeEncoderDelta: encDelta = 0
TakeClear ==
  /\ encObs.pc = "clear"
  /\ encDelta' = takeEncoderDelta(encObs.d).encDelta
  /\ encObs' = [encObs EXCEPT !.pc = "sei"]
  /\ UNCHANGED <<encPins, encPrev, btnRaw, isrVars, detVars, ambVars, wobVars, envVars>>
  /\ UNCHANGED <<clockVars, quantVars, dlenVars, pluckVars, schedVars, loopVars, fxVars, mixVars, panelVars, isrVars, detVars, ambVars, wobVars, envVars>>

\* takeEncoderDelta: interrupts(); return d
TakeSei ==
  /\ encObs.pc = "sei"
  /\ encObs' = [encObs EXCEPT !.pc = "rest", !.irq = TRUE, !.taken = @ + encObs.d]
  /\ UNCHANGED <<encPins, encPrev, encDelta, btnRaw, isrVars, detVars, ambVars, wobVars, envVars>>
  /\ UNCHANGED <<clockVars, quantVars, dlenVars, pluckVars, schedVars, loopVars, fxVars, mixVars, panelVars, isrVars, detVars, ambVars, wobVars, envVars>>

\* the rest of loop(): consumeButtonClick clears btnRaw; nothing else touches the encoder
EncRest ==
  /\ encObs.pc = "rest"
  /\ btnRaw' = FALSE
  /\ encObs' = [encObs EXCEPT !.pc = "readA"]
  /\ UNCHANGED <<encPins, encPrev, encDelta, isrVars, detVars, ambVars, wobVars, envVars>>
  /\ UNCHANGED <<clockVars, quantVars, dlenVars, pluckVars, schedVars, loopVars, fxVars, mixVars, panelVars, isrVars, detVars, ambVars, wobVars, envVars>>

(***************************************************************************)
(* The interrupt-driven encoder: isr_encA runs on every pin change, to     *)
(* completion, between any two statements of audioBlock.                   *)
(***************************************************************************)
DebounceMicros == 300

\* microseconds between two pin changes
EdgeGaps == {100, 400}

\* what isr_encA adds to encDelta for the transition from pin pair l to pin pair ab
IsrStep(l, ab) ==
  IF <<l, ab>> \in {<<0, 1>>, <<1, 3>>, <<3, 2>>, <<2, 0>>} THEN 1
  ELSE IF <<l, ab>> \in {<<0, 2>>, <<2, 3>>, <<3, 1>>, <<1, 0>>} THEN -1
  ELSE 0

\* added: sum of the steps the handler counted; taken: sum of the steps given to editPageByDelta
IsrObsInit ==
  [pc |-> "load", d |-> 0, now |-> 1000, pend |-> FALSE, added |-> 0, taken |-> 0, edges |-> 0]

\* a pin changes and raises the CHANGE interrupt
IsrEdge ==
  /\ isrObs.edges < MaxIsrEdges
  /\ \E ab \in PinEdges(encPins), dt \in EdgeGaps :
       /\ encPins' = ab
       /\ isrObs' = [isrObs EXCEPT !.edges = @ + 1, !.now = @ + dt, !.pend = TRUE]
  /\ UNCHANGED <<encPrev, encDelta, btnRaw, encObs, lastAB, encLastMicros, detVars, ambVars, wobVars, envVars>>
  /\ UNCHANGED <<clockVars, quantVars, dlenVars, pluckVars, schedVars, loopVars, fxVars, mixVars, panelVars, detVars, ambVars, wobVars, envVars>>

isr_encA ==
  /\ isrObs.pend
  /\ IF isrObs.now - encLastMicros < DebounceMicros
       THEN /\ isrObs' = [isrObs EXCEPT !.pend = FALSE]
            /\ UNCHANGED <<encDelta, lastAB, encLastMicros, detVars, ambVars, wobVars, envVars>>
       ELSE LET step == IsrStep(lastAB, encPins)
            IN /\ encLastMicros' = isrObs.now
               /\ encDelta' = encDelta + step
               /\ lastAB' = encPins
               /\ isrObs' = [isrObs EXCEPT !.pend = FALSE, !.added = @ + step]
  /\ UNCHANGED <<encPins, encPrev, btnRaw, encObs, detVars, ambVars, wobVars, envVars>>
  /\ UNCHANGED <<clockVars, quantVars, dlenVars, pluckVars, schedVars, loopVars, fxVars, mixVars, panelVars, detVars, ambVars, wobVars, envVars>>

\* audioBlock: int32_t d = encDelta
AbLoad ==
  /\ isrObs.pc = "load"
  /\ isrObs' = [isrObs EXCEPT !.pc = "test", !.d = encDelta]
  /\ UNCHANGED <<encPins, encPrev, encDelta, btnRaw, encObs, lastAB, encLastMicros, detVars, ambVars, wobVars, envVars>>
  /\ UNCHANGED <<clockVars, quantVars, dlenVars, pluckVars, schedVars, loopVars, fxVars, mixVars, panelVars, detVars, ambVars, wobVars, envVars>>

\* audioBlock: if (d != 0) { encDelta = 0; editPageByDelta(step) }, step being d
AbClear ==
  /\ isrObs.pc = "test"
  /\ IF isrObs.d # 0
       THEN /\ encDelta' = 0
            /\ isrObs' = [isrObs EXCEPT !.pc = "rest", !.taken = @ + isrObs.d]
       ELSE /\ isrObs' = [isrObs EXCEPT !.pc = "rest"]
            /\ UNCHANGED encDelta
  /\ UNCHANGED <<encPins, encPrev, btnRaw, encObs, lastAB, encLastMicros, detVars, ambVars, wobVars, envVars>>
  /\ UNCHANGED <<clockVars, quantVars, dlenVars, pluckVars, schedVars, loopVars, fxVars, mixVars, panelVars, detVars, ambVars, wobVars, envVars>>

\* the rest of audioBlock and the return to its head
AbRest ==
  /\ isrObs.pc = "rest"
  /\ isrObs' = [isrObs EXCEPT !.pc = "load"]
  /\ UNCHANGED <<encPins, encPrev, encDelta, btnRaw, encObs, lastAB, encLastMicros, detVars, ambVars, wobVars, envVars>>
  /\ UNCHANGED <<clockVars, quantVars, dlenVars, pluckVars, schedVars, loopVars, fxVars, mixVars, panelVars, detVars, ambVars, wobVars, envVars>>

(***************************************************************************)
(* The shared random generator.  gRng32 is held as <<high half, low half>> *)
(* of the 32-bit word; rand01() is held as the binary32 it returns, in     *)
(* units of 2^-32, again as two halves (the high half is 2^16 for 1.0f).   *)
(* Every call of rng32()/rand01() in loop() is made, in the order of the   *)
(* code: the drone pitch walk (on millis()), the noise source (one call    *)
(* per sample), onStep16 and pickAmbientNote, maybeTriggerGesture, the     *)
(* scene scheduler and the gesture.                                        *)
(***************************************************************************)
W16 == 2 ^ 16

\* the seeds the two runs are started from
Seeds == {2, 10}

\* millis() at the first iteration of loop(), and the time one stall of the loop takes
BootMs == 1000
StallMs == 150

XorNib ==
  [a \in 0..15, b \in 0..15 |->
     ((a + b) % 2) + 2 * (((a \div 2) + (b \div 2)) % 2)
     + 4 * (((a \div 4) + (b \div 4)) % 2) + 8 * (((a \div 8) + (b \div 8)) % 2)]

\* a ^ b for 16-bit a and b
Xor16(a, b) ==
  XorNib[a % 16, b % 16] + 16 * XorNib[(a \div 16) % 16, (b \div 16) % 16]
  + 256 * XorNib[(a \div 256) % 16, (b \div 256) % 16]
  + 4096 * XorNib[a \div 4096, b \div 4096]

\* x ^ (x << 13), x ^ (x >> 17) and x ^ (x << 5) on the word w
XorShl13(w) == <<Xor16(w[1], (w[1] % 8) * 8192 + w[2] \div 8), Xor16(w[2], (w[2] % 8) * 8192)>>
XorShr17(w) == <<w[1], Xor16(w[2], w[1] \div 2)>>
XorShl5(w) == <<Xor16(w[1], (w[1] % 2048) * 32 + w[2] \div 2048), Xor16(w[2], (w[2] % 2048) * 32)>>

\* x ^= x << 13; x ^= x >> 17; x ^= x << 5 on the word w: the new gRng32, which is
\* also the value returned (each intermediate word is bound once, as the element of
\* a one-element set)
rng32(w) ==
  CHOOSE x \in {XorShl5(b) : b \in {XorShr17(a) : a \in {XorShl13(w)}}} : TRUE

\* rand01() for the word w that rng32() returned: (float)w * 2^-32, the conversion
\* rounding w to 24 significant bits
rand01(w) ==
  LET u == IF w[1] < 256 THEN 1 ELSE Pow2(Log2(w[1]) - 7)
      l == RoundToUlp(w[2], u)
  IN  IF l = W16 THEN <<w[1] + 1, 0>> ELSE <<w[1], l>>

\* f < p for two binary32 values in units of 2^-32
FLess(f, p) == f[1] < p[1] \/ (f[1] = p[1] /\ f[2] < p[2])

\* rng32() % n and rng32() & 1
WordMod(w, n) == ((w[1] % n) * (W16 % n) + (w[2] % n)) % n
WordOdd(w) == w[2] % 2 = 1

\* the state of the generator after k more calls of rng32(), k >= 1
RECURSIVE Skip(_, _)
Skip(w, k) ==
  IF k = 1 THEN rng32(w)
  ELSE CHOOSE x \in {Skip(v, k - k \div 2) : v \in {Skip(w, k \div 2)}} : TRUE

\* energy_set at energy 50: the binary32 values of pStrong, pEven, pOdd (units of
\* 2^-32) and of the hold and wide-interval probabilities 0.10f and 0.15f
PStrong50 == <<40593, 48384>>
PEven50 == <<22326, 36352>>
POdd50 == <<8118, 48992>>
PHold == <<6553, 39328>>
PWide == <<9830, 26240>>

\* ln 2 * SR / gestureLambdaHz at energy 50 (lambda = 0.12761424 Hz): the samples
\* of gap per halving of r in samplesFromExp
GapPerOctave == 239533

\* m * m for m in [1, 4) held in units of 2^-20
SquareQ20(m) ==
  LET a == m \div 1024
      b == m % 1024
  IN  a * a + (2 * a * b) \div 1024 + (b * b) \div (1024 * 1024)

\* the first n bits of the fraction of log2(m), m in [1, 2) in units of 2^-20
RECURSIVE Log2Frac(_, _)
Log2Frac(m, n) ==
  IF n = 0 THEN 0
  ELSE LET s == SquareQ20(m)
       IN  IF s >= 2 ^ 21 THEN Pow2(n - 1) + Log2Frac(s \div 2, n - 1)
                          ELSE Log2Frac(s, n - 1)

\* samplesFromExp(lambda) for the drawn rand01() f: r = 1 - f (at least 1e-6),
\* sec = -logf(r) / lambda, (uint32_t)(sec * SR + 0.5f), at least 1.  The logarithm
\* is taken to 16 binary places of r in units of 2^-20: the gap is within a few
\* samples of the firmware's.
samplesFromExp(f) ==
  LET x20 == f[1] * 16 + f[2] \div 4096
      r20 == IF 2 ^ 20 - x20 < 1 THEN 1 ELSE 2 ^ 20 - x20
      k == 20 - Log2(r20)
      m == r20 * Pow2(k)
      n16 == k * W16 - Log2Frac(m, 16)
      nf == n16 % W16
      g == (n16 \div W16) * GapPerOctave + ((nf * (GapPerOctave \div 512)) \div 128)
           + ((nf * (GapPerOctave % 512) + (W16 \div 2)) \div W16)
  IN  IF g < 1 THEN 1 ELSE g

\* (uint32_t)(rand01() * 4000.0f): the binary32 product, truncated
Times4000(f) ==
  LET a == f[1] * 125 + (f[2] * 125) \div W16
      b == (f[2] * 125) % W16
      n == a \div 2 ^ 11
      frac == (a % 2 ^ 11) * W16 + b
      ulp == IF n = 0 THEN 8 ELSE Pow2(Log2(n) + 4)
  IN  IF 2 * frac >= 2 ^ 28 - ulp THEN n + 1 ELSE n

\* (uint64_t)((base + scale * rand01()) * SR + 0.5f) for base and scale in half
\* seconds, to within two samples
GestureSamples(f, baseHalves, scaleHalves) ==
  (baseHalves * SR) \div 2 + scaleHalves * (((f[1] \div 4) * SR) \div 2 ^ 15)

\* the pool pickAmbientNote builds, in the order of its loops
PoolSeq(s) ==
  LET sd == scaleDef(s)
      all == [i \in 1..(5 * sd.count) |->
                (2 + (i - 1) \div sd.count) * 12 + sd.rootPC
                + sd.degrees[((i - 1) % sd.count) + 1]]
  IN  SelectSeq(all, LAMBDA m : m >= 36 /\ m <= 96)

\* one run of the firmware after setup() with the generator seeded to seed
DetRun0(seed) ==
  [gRng32 |-> <<0, seed>>, k |-> 0, lag |-> 0, nextPitchChange |-> 0,
   clk |-> clock_init(DefaultBpm), last |-> 60, nextGestureAt |-> 0, schInited |-> FALSE,
   gNextAt |-> 0, gActive |-> FALSE, gEnd |-> 0, notes |-> <<>>]

\* millis() at the head of iteration k: i2s_write paces the loop at one block per
\* CHUNK samples of time; lag is the time the loop has been held up elsewhere
MillisAt(R) == BootMs + (R.k * CHUNK * 1000) \div SR + R.lag

\* the drone pitch walk is due: now >= nextPitchChange
PitchDue(R) == MillisAt(R) >= R.nextPitchChange

\* the slow random walk of the drone pitch at the head of loop(): two draws when due
PitchWalk(R) ==
  IF PitchDue(R)
  THEN LET w1 == rng32(R.gRng32)
           w2 == rng32(w1)
       IN  [R EXCEPT !.gRng32 = w2,
                     !.nextPitchChange = MillisAt(R) + 3000 + Times4000(rand01(w2))]
  ELSE R

\* onStep16(step): the wobble is not re-drawn (bar = step / 16 stays 0), one draw
\* decides whether a note starts, pickAmbientNote and the velocity draw follow
onStep16(R, step) ==
  LET p == IF step % 4 = 0 THEN PStrong50 ELSE IF step % 2 = 0 THEN PEven50 ELSE POdd50
      w1 == rng32(R.gRng32)
  IN  IF ~FLess(rand01(w1), p) THEN [R EXCEPT !.gRng32 = w1]
      ELSE LET pool == PoolSeq(SCALE_A_MINOR)
               w2 == rng32(w1)
               cand == pool[WordMod(w2, Len(pool)) + 1]
               w3 == rng32(w2)
               hold == FLess(rand01(w3), PHold)
               w4 == IF hold THEN w3 ELSE rng32(w3)
               wide == ~hold /\ FLess(rand01(w4), PWide)
               w5 == IF wide THEN rng32(w4) ELSE w4
               c1 == IF wide THEN cand + (IF WordOdd(w5) THEN 7 ELSE -5) ELSE cand
               close == ~hold /\ Abs(c1 - R.last) < 3
               w6 == IF close THEN rng32(w5) ELSE w5
               pk == pickAmbientNote(SCALE_A_MINOR, R.last, cand, hold, wide,
                                     WordOdd(w5), WordOdd(w6))
               w7 == rng32(w6)
           IN  [R EXCEPT !.gRng32 = w7, !.last = pk[2], !.notes = Append(@, pk[1])]

RECURSIVE StepAll(_, _, _)
StepAll(R, fired, i) ==
  IF i > Len(fired) THEN R
  ELSE CHOOSE x \in {StepAll(R1, fired, i + 1) : R1 \in {onStep16(R, fired[i][1])}} : TRUE

\* maybeTriggerGesture(gEnergy, smpNow)
maybeTriggerGesture(R) ==
  IF R.nextGestureAt = 0 \/ R.clk.smpNow >= R.nextGestureAt
  THEN LET w == rng32(R.gRng32)
       IN  [R EXCEPT !.gRng32 = w,
                     !.nextGestureAt = R.clk.smpNow + samplesFromExp(rand01(w))]
  ELSE R

\* scene_update(smpNow): the scheduler draws its first interval (120 to 240 s, more
\* than the blocks rendered here) at the first call
SceneSeed(R) ==
  IF R.schInited THEN R ELSE [R EXCEPT !.gRng32 = rng32(R.gRng32), !.schInited = TRUE]

\* gesture_update_and_apply(smpNow): the seed of the first gesture, the draws of a
\* gesture that starts (attack, release, three boosts, the next gap), the end
GestureDrawsOf(R) ==
  LET w0 == IF R.gNextAt = 0 THEN rng32(R.gRng32) ELSE R.gRng32
      R1 == IF R.gNextAt = 0
            THEN [R EXCEPT !.gRng32 = w0,
                           !.gNextAt = R.clk.smpNow + samplesFromExp(rand01(w0))]
            ELSE R
      wa == rng32(R1.gRng32)
      wr == rng32(wa)
      wn == Skip(wr, 4)
      R2 == IF ~R1.gActive /\ R1.clk.smpNow >= R1.gNextAt
            THEN [R1 EXCEPT !.gRng32 = wn, !.gActive = TRUE,
                            !.gEnd = R1.clk.smpNow + GestureSamples(rand01(wa), 1, 2)
                                     + GestureSamples(rand01(wr), 5, 4),
                            !.gNextAt = R1.clk.smpNow + samplesFromExp(rand01(wn))]
            ELSE R1
  IN  IF R2.gActive /\ R2.clk.smpNow >= R2.gEnd THEN [R2 EXCEPT !.gActive = FALSE] ELSE R2

\* one iteration of loop(): the pitch walk, CHUNK samples of noise, the clock with
\* its onStep16 calls, the schedulers
RenderAndClock(R) ==
  CHOOSE x \in
    {StepAll([R EXCEPT !.gRng32 = w, !.clk = ca[1]], ca[2], 1) :
       w \in {Skip(R.gRng32, CHUNK)}, ca \in {clock_advance_block(R.clk, CHUNK)}} :
    TRUE

DetIteration(R) ==
  CHOOSE x \in
    {[R5 EXCEPT !.k = @ + 1] :
       R5 \in {GestureDrawsOf(R4) :
         R4 \in {SceneSeed(R3) :
           R3 \in {maybeTriggerGesture(R2) :
             R2 \in {RenderAndClock(R1) : R1 \in {PitchWalk(R)}}}}}} :
    TRUE

DetObsInit == [turn |-> 1, stalls |-> 0]

\* the run whose turn it is makes one iteration of loop()
DetLoop ==
  /\ gRun[detObs.turn].k < MaxDetBlocks
  /\ gRun' = [gRun EXCEPT ![detObs.turn] = DetIteration(@)]
  /\ detObs' = [detObs EXCEPT !.turn = 3 - @]
  /\ UNCHANGED <<clockVars, quantVars, dlenVars, pluckVars, schedVars, loopVars, fxVars, mixVars, panelVars, encVars, isrVars, ambVars, wobVars, envVars>>

\* the second run is held up for StallMs between two iterations (display, serial
\* port, scheduling): millis() moves on, the sample clock does not
DetStall ==
  /\ detObs.turn = 2
  /\ detObs.stalls < MaxStalls
  /\ gRun[2].k = 1
  /\ gRun' = [gRun EXCEPT ![2].lag = @ + StallMs]
  /\ detObs' = [detObs EXCEPT !.stalls = @ + 1]
  /\ UNCHANGED <<clockVars, quantVars, dlenVars, pluckVars, schedVars, loopVars, fxVars, mixVars, panelVars, encVars, isrVars, ambVars, wobVars, envVars>>

(***************************************************************************)
(* The pluck voices of the ambient-house variant.  The envelope is held in *)
(* units of 1/PlkEnvOne, the phase and its increment in units of 1/1000 rad;  *)
(* the filter coefficients of a voice, which depend on the pad, are not    *)
(* held.                                                                   *)
(***************************************************************************)
PLUCK_N == 4
AmbVoices == 1..PLUCK_N

PlkEnvOne == 4 * 10 ^ 3
PluckA == 12        \* a = 0.003f
PluckD == 1         \* d * DT * SR * 0.001f = 0.00025f
TauQ == 6283        \* TAU_F

\* the frequencies triggerPluck is called with, the pans it draws (0.4f + 0.2f * frand())
\* and the samples rendered between two calls
PluckHz == {220, 262}
PanDraws == {400, 600}
AmbRenders == {400}

Pluck0 == [on |-> FALSE, env |-> 0, phase |-> 0, inc |-> 0, pan |-> 500]

\* TAU_F * hz * DT
IncOfHz(hz) == (TauQ * hz) \div SR

\* the first voice that is not on, 0 when every voice is on
FirstFree(P) ==
  IF \A i \in AmbVoices : P[i].on THEN 0
  ELSE CHOOSE i \in AmbVoices : ~P[i].on /\ \A j \in 1..(i - 1) : P[j].on

\* triggerPluck(hz): the first voice that is off starts the note; when all are on
\* the loop ends and nothing is changed
triggerPluck(P, hz, pan) ==
  IF FirstFree(P) = 0 THEN P
  ELSE [P EXCEPT ![FirstFree(P)] =
          [on |-> TRUE, env |-> 0, phase |-> 0, inc |-> IncOfHz(hz), pan |-> pan]]

\* one sample of a voice in audioBlock: the envelope rises by a below 1, falls by d
\* otherwise; the voice goes off at env <= 0.0001f
PluckSample(v) ==
  IF ~v.on THEN v
  ELSE LET e == IF v.env < PlkEnvOne THEN v.env + PluckA ELSE v.env - PluckD
       IN  IF 10 * e <= PlkEnvOne \div 1000 THEN [v EXCEPT !.on = FALSE, !.env = e]
           ELSE [v EXCEPT !.env = e, !.phase = (v.phase + v.inc) % TauQ]

RECURSIVE PluckSamples(_, _)
PluckSamples(v, n) ==
  IF n = 0 THEN v
  ELSE CHOOSE x \in
         {PluckSamples(g, n \div 2) :
            g \in {IF n % 2 = 1 THEN PluckSample(h) ELSE h : h \in {PluckSamples(v, n \div 2)}}} :
         TRUE

AmbObsInit == [op |-> "init", inc |-> 0, full |-> FALSE, ops |-> 0]

AmbTrigger ==
  \E hz \in PluckHz, pan \in PanDraws :
    /\ ambObs.ops < MaxAmbOps
    /\ plk' = triggerPluck(plk, hz, pan)
    /\ ambObs' = [op |-> "trigger", inc |-> IncOfHz(hz), full |-> FirstFree(plk) = 0,
                  ops |-> ambObs.ops + 1]
    /\ UNCHANGED <<clockVars, quantVars, dlenVars, pluckVars, schedVars, loopVars, fxVars, mixVars, panelVars, encVars, isrVars, detVars, wobVars, envVars>>

AmbRender ==
  \E n \in AmbRenders :
    /\ ambObs.ops < MaxAmbOps
    /\ plk' = [i \in AmbVoices |-> PluckSamples(plk[i], n)]
    /\ ambObs' = [ambObs EXCEPT !.op = "render", !.ops = @ + 1]
    /\ UNCHANGED <<clockVars, quantVars, dlenVars, pluckVars, schedVars, loopVars, fxVars, mixVars, panelVars, encVars, isrVars, detVars, wobVars, envVars>>

(***************************************************************************)
(* The per-bar wobble of onStep16.  Probabilities are held in units of     *)
(* 10^-4, the wobble in units of 10^-3.  The note a triggering step starts *)
(* is the scheduler's (pickAmbientNote, pluck_noteOn above).               *)
(***************************************************************************)
ProbOne == 10 ^ 4
WobOne == 10 ^ 3

\* the firmware and the browser port
WobBuilds == {"firmware", "lab"}

\* rand01() for the wobble (units of 10^-3) and for the trigger (units of 10^-4)
WobRand == {0, 500, 999}
TrigRand == {1000, 5000}

\* energy_set at energy 50: pStrong, pEven, pOdd
EnergyP == [pStrong |-> 6194, pEven |-> 3407, pOdd |-> 1239]

\* 0.9f + 0.2f * rand01()
WobOf(r) == (9 * WobOne) \div 10 + (2 * r) \div 10

\* the firmware's test: bar = step / 16 differs from lastBar
BarChanged(W, step) == step \div 16 # W.lastBar

\* the browser port's test: (step & 15) === 0
BarStart(W, step) == step % 16 = 0

\* the re-draw at the head of onStep16; in the browser port _wob is undefined
\* (held as 0) until the first re-draw and is read as _wob || 1
WobRedraw(W, step, r) ==
  IF W.build = "firmware"
  THEN IF BarChanged(W, step)
       THEN [W EXCEPT !.lastBar = step \div 16, !.wob = WobOf(r)]
       ELSE W
  ELSE IF BarStart(W, step) THEN [W EXCEPT !.wob = WobOf(r)] ELSE W

WobRead(W) == IF W.build = "lab" /\ W.wob = 0 THEN WobOne ELSE W.wob

\* p = constrain(pX * wob, 0.02f, 0.95f)
StepProb(W, step) ==
  LET px == IF step % 4 = 0 THEN EnergyP.pStrong
            ELSE IF step % 2 = 0 THEN EnergyP.pEven ELSE EnergyP.pOdd
  IN  constrain((px * WobRead(W)) \div WobOne, ProbOne \div 50, (95 * ProbOne) \div 100)

Wob0(b) == [build |-> b, step16 |-> 0, lastBar |-> 0, wob |-> IF b = "lab" THEN 0 ELSE WobOne]

WobObsInit == [steps |-> 0, sinceDraw |-> 0, drew |-> FALSE, step |-> 0, noteOn |-> FALSE]

\* one turn of the loop in clock_advance_block: onStep16(c.step16), then step16
\* moves on modulo 16
WobStep ==
  \E r \in WobRand, t \in TrigRand :
    LET step == wobSt.step16
        W1 == WobRedraw(wobSt, step, r)
        drew == IF wobSt.build = "firmware" THEN BarChanged(wobSt, step)
                ELSE BarStart(wobSt, step)
    IN  /\ wobObs.steps < MaxWobSteps
        /\ wobSt' = [W1 EXCEPT !.step16 = (step + 1) % 16]
        /\ wobObs' = [steps |-> wobObs.steps + 1,
                      sinceDraw |-> IF drew THEN 0 ELSE wobObs.sinceDraw + 1,
                      drew |-> drew, step |-> step,
                      noteOn |-> t < StepProb(W1, step)]
        /\ UNCHANGED <<clockVars, quantVars, dlenVars, pluckVars, schedVars, loopVars, fxVars, mixVars, panelVars, encVars, isrVars, detVars, ambVars, envVars>>

(***************************************************************************)
(* One pluck voice with its envelope in binary32.  env is held in units of *)
(* 2^-30 and rounded to a 24-bit significand after every operation (values *)
(* below 2^-6 are kept at the unit).  The loop renders CHUNK samples per   *)
(* block; pluck_noteOn is called between two blocks.                       *)
(***************************************************************************)
EQ == 2 ^ 30

\* the binary32 nearest to x / EQ
FlE(x) ==
  IF Abs(x) < 2 ^ 24 THEN x
  ELSE IF x >= 0 THEN RoundToUlp(x, Pow2(Log2(x) - 23))
  ELSE -RoundToUlp(-x, Pow2(Log2(-x) - 23))

\* dec * x for two values in 1/EQ
MulQ(dec, x) ==
  (dec \div 2 ^ 15) * (x \div 2 ^ 15) + ((dec % 2 ^ 15) * (x \div 2 ^ 15)) \div 2 ^ 15
    + ((dec \div 2 ^ 15) * (x % 2 ^ 15)) \div 2 ^ 15

\* the per-sample amounts 1.0f / (t * sr) of the ADSR for sr = 44100:
\* the struct's a = 0.003f, d = 0.080f, r = 0.060f; a = 0.0005f, d = 0.004f;
\* and d = 1000.0f.  s is the struct's 0.00f.
EnvProgram == [inc |-> 8115962, decD |-> 304349, s |-> 0, decR |-> 405798]
EnvShort == [inc |-> 48695772, decD |-> 6086972, s |-> 0, decR |-> 405798]
EnvLongDecay == [inc |-> 8115962, decD |-> 24, s |-> 0, decR |-> 405798]
EnvSettings == {EnvProgram, EnvShort, EnvLongDecay}

\* adsr_step in binary32 on voice v with the amounts e
adsr_step_f32(v, e) ==
  CASE v.st = ENV_ATTACK ->
         LET env == FlE(v.env + e.inc)
         IN  IF env >= EQ THEN [v EXCEPT !.env = EQ, !.st = ENV_DECAY]
             ELSE [v EXCEPT !.env = env]
    [] v.st = ENV_DECAY ->
         LET env == FlE(v.env - FlE(MulQ(e.decD, EQ - e.s)))
         IN  IF env <= e.s THEN [v EXCEPT !.env = e.s, !.st = ENV_SUSTAIN]
             ELSE [v EXCEPT !.env = env]
    [] v.st = ENV_SUSTAIN -> [v EXCEPT !.st = SustainNext(v)]
    [] v.st = ENV_RELEASE ->
         LET env == FlE(v.env - FlE(MulQ(e.decR, v.env)))
         IN  IF env <= 8 * (EQ \div 10 ^ 4) THEN [v EXCEPT !.env = 0, !.st = ENV_IDLE]
             ELSE [v EXCEPT !.env = env]
    [] OTHER -> [v EXCEPT !.env = 0]

\* a render that steps the envelope and never retires the voice
EnvRenderKeepsActive(v, e) == IF ~v.active THEN v ELSE adsr_step_f32(v, e)

\* the pluck render of loop() for one sample of the voice
EnvRenderSample(v, e) ==
  IF ~v.active THEN v
  ELSE CHOOSE x \in {IF w.st = ENV_IDLE THEN [w EXCEPT !.active = FALSE] ELSE w :
                       w \in {adsr_step_f32(v, e)}} : TRUE

RECURSIVE EnvSamples(_, _, _)
EnvSamples(v, e, n) ==
  IF n = 0 THEN v
  ELSE IF n = 1 THEN EnvRenderSample(v, e)
  ELSE CHOOSE x \in {EnvSamples(h, e, n - n \div 2) : h \in {EnvSamples(v, e, n \div 2)}} : TRUE

EnvVoice0 == [active |-> FALSE, st |-> ENV_IDLE, env |-> 0, gate |-> FALSE]

\* the samples after which age is no longer counted
AgeCap == 16 * CHUNK

EnvObsInit(c) == [cfg |-> c, age |-> 0, noteOns |-> 0]

\* pluck_noteOn on this voice
EnvNoteOn ==
  /\ envObs.noteOns < MaxEnvNoteOns
  /\ envV' = [active |-> TRUE, st |-> ENV_ATTACK, env |-> 0, gate |-> FALSE]
  /\ envObs' = [envObs EXCEPT !.age = 0, !.noteOns = @ + 1]
  /\ UNCHANGED <<envTick, clockVars, quantVars, dlenVars, pluckVars, schedVars, loopVars, fxVars, mixVars, panelVars, encVars, isrVars, detVars, ambVars, wobVars>>

\* one iteration of loop(): CHUNK samples of the voice
EnvBlock ==
  /\ envV' = EnvSamples(envV, envObs.cfg, CHUNK)
  /\ envObs' = [envObs EXCEPT !.age = IF @ + CHUNK > AgeCap THEN AgeCap ELSE @ + CHUNK]
  /\ envTick' = 1 - envTick
  /\ UNCHANGED <<clockVars, quantVars, dlenVars, pluckVars, schedVars, loopVars, fxVars, mixVars, panelVars, encVars, isrVars, detVars, ambVars, wobVars>>

(***************************************************************************)
(* Specifications                                                          *)
(***************************************************************************)
ClockIdle ==
  /\ gClock = clock_init(DefaultBpm)
  /\ stepLog = <<>>
  /\ clockObs = ClockObsInit

QuantIdle == qIn = <<0, 0>> /\ qOut = -1

DlenIdle == dIn = <<0, 0>> /\ dOut = -1

PluckIdle ==
  /\ port = "firmware"
  /\ gScale = SCALE_A_MINOR
  /\ gPluck = pluck_init
  /\ adsr \in {a \in AdsrSettings : a.s = 0}
  /\ pluckObs = PluckObsInit

SchedIdle == last = 60 /\ schedObs = SchedObsInit

LoopIdle ==
  /\ currentPage = PAGE_VOLUME
  /\ params = ParamsBoot
  /\ gDelay = delay_init(DefaultBpm, DELAY_1_4)
  /\ pad = PadBoot
  /\ gScene = SceneXfade0
  /\ gSceneSch = SceneScheduler0
  /\ loopObs = LoopObsInit

FxIdle ==
  /\ fxDelay = FxDelayBoot
  /\ fxComb = FxCombBoot
  /\ fxAp = FxApBoot
  /\ fxObs = FxObsInit

MixIdle ==
  /\ dlMix = MixOf(45, 50).dl
  /\ gReverb = MixOf(45, 50).rv
  /\ gGesture = GestureCtrl0
  /\ mixObs = MixObsInit

PanelIdle == panelObs = PanelObsInit

EncIdle ==
  /\ encPins = 0
  /\ encPrev = 0
  /\ encDelta = 0
  /\ btnRaw = FALSE
  /\ encObs = EncObsInit

IsrIdle ==
  /\ lastAB = 0
  /\ encLastMicros = 0
  /\ isrObs = IsrObsInit

DetIdle ==
  /\ gRun = [r \in {1, 2} |-> DetRun0(1)]
  /\ detObs = DetObsInit

AmbIdle ==
  /\ plk = [i \in AmbVoices |-> Pluck0]
  /\ ambObs = AmbObsInit

WobIdle ==
  /\ wobSt = Wob0("firmware")
  /\ wobObs = WobObsInit

EnvIdle ==
  /\ envV = EnvVoice0
  /\ envObs = EnvObsInit(EnvProgram)
  /\ envTick = 0

InitClock ==
  /\ \E bpm \in ClockTempos :
       /\ gClock = clock_init(bpm)
       /\ clockObs = [ClockObsInit EXCEPT !.prev = clock_init(bpm)]
  /\ stepLog = <<>>
  /\ QuantIdle
  /\ DlenIdle
  /\ PluckIdle
  /\ SchedIdle
  /\ LoopIdle
  /\ FxIdle
  /\ MixIdle
  /\ PanelIdle
  /\ EncIdle
  /\ IsrIdle
  /\ DetIdle
  /\ AmbIdle
  /\ WobIdle
  /\ EnvIdle

NextClock == AdvanceBlock \/ UpdateTempo

SpecClock == InitClock /\ [][NextClock]_vars

InitQuant ==
  /\ qIn \in MidiNotes \X Scales
  /\ qOut = -1
  /\ ClockIdle
  /\ DlenIdle
  /\ PluckIdle
  /\ SchedIdle
  /\ LoopIdle
  /\ FxIdle
  /\ MixIdle
  /\ PanelIdle
  /\ EncIdle
  /\ IsrIdle
  /\ DetIdle
  /\ AmbIdle
  /\ WobIdle
  /\ EnvIdle

NextQuant == Quantize

SpecQuant == InitQuant /\ [][NextQuant]_vars

InitDelayLen ==
  /\ dIn \in Tempos \X DelayModes
  /\ dOut = -1
  /\ ClockIdle
  /\ QuantIdle
  /\ PluckIdle
  /\ SchedIdle
  /\ LoopIdle
  /\ FxIdle
  /\ MixIdle
  /\ PanelIdle
  /\ EncIdle
  /\ IsrIdle
  /\ DetIdle
  /\ AmbIdle
  /\ WobIdle
  /\ EnvIdle

NextDelayLen == DelayLength

SpecDelayLen == InitDelayLen /\ [][NextDelayLen]_vars

InitPluck ==
  /\ port \in Ports
  /\ gScale = SCALE_A_MINOR
  /\ gPluck = pluck_init
  /\ adsr \in AdsrSettings
  /\ pluckObs = PluckObsInit
  /\ ClockIdle
  /\ QuantIdle
  /\ DlenIdle
  /\ SchedIdle
  /\ LoopIdle
  /\ FxIdle
  /\ MixIdle
  /\ PanelIdle
  /\ EncIdle
  /\ IsrIdle
  /\ DetIdle
  /\ AmbIdle
  /\ WobIdle
  /\ EnvIdle

NextPluck == NoteOn \/ RenderSample

SpecPluck == InitPluck /\ [][NextPluck]_vars

InitSched ==
  /\ port \in Ports
  /\ gScale = SCALE_A_MINOR
  /\ gPluck = pluck_init
  /\ adsr \in {a \in AdsrSettings : a.s = 0}
  /\ pluckObs = PluckObsInit
  /\ last = 60
  /\ schedObs = SchedObsInit
  /\ ClockIdle
  /\ QuantIdle
  /\ DlenIdle
  /\ LoopIdle
  /\ FxIdle
  /\ MixIdle
  /\ PanelIdle
  /\ EncIdle
  /\ IsrIdle
  /\ DetIdle
  /\ AmbIdle
  /\ WobIdle
  /\ EnvIdle

NextSched == Step16Trigger \/ Step16Rest \/ SceneScaleSwitch \/ RenderToNextStep

SpecSched == InitSched /\ [][NextSched]_vars

InitLoop ==
  /\ gClock = clock_init(DefaultBpm)
  /\ stepLog = <<>>
  /\ clockObs = ClockObsInit
  /\ LoopIdle
  /\ QuantIdle
  /\ DlenIdle
  /\ PluckIdle
  /\ SchedIdle
  /\ FxIdle
  /\ MixIdle
  /\ PanelIdle
  /\ EncIdle
  /\ IsrIdle
  /\ DetIdle
  /\ AmbIdle
  /\ WobIdle
  /\ EnvIdle

NextLoop == LoopHead \/ LoopTail

SpecLoop == InitLoop /\ [][NextLoop]_vars

InitFx ==
  /\ fxDelay = FxDelayBoot
  /\ fxComb = FxCombBoot
  /\ fxAp = FxApBoot
  /\ fxObs = FxObsInit
  /\ ClockIdle
  /\ QuantIdle
  /\ DlenIdle
  /\ PluckIdle
  /\ SchedIdle
  /\ LoopIdle
  /\ MixIdle
  /\ PanelIdle
  /\ EncIdle
  /\ IsrIdle
  /\ DetIdle
  /\ AmbIdle
  /\ WobIdle
  /\ EnvIdle

NextFx == DelayStep \/ CombStep \/ AllpassStep \/ SetFxParams

SpecFx == InitFx /\ [][NextFx]_vars

\* the mix starts with the first gesture seeded and still to come, Space as setup()
\* left it or as the user has dialled it
InitMix ==
  /\ currentPage = PAGE_SPACE
  /\ \E sp \in {ParamsBoot.spacePercent} \cup DialledSpace, gap \in {CHUNK} :
       LET M == IF sp = ParamsBoot.spacePercent THEN MixOf(sp, ParamsBoot.moodPercent)
                ELSE delay_set_space(MixOf(ParamsBoot.spacePercent, ParamsBoot.moodPercent), sp)
       IN  /\ params = [ParamsBoot EXCEPT !.spacePercent = sp]
           /\ dlMix = M.dl
           /\ gReverb = M.rv
           /\ gGesture = [GestureCtrl0 EXCEPT !.nextAt = DialBlocks * CHUNK + gap]
           /\ mixObs = [MixObsInit EXCEPT !.now = DialBlocks * CHUNK]
  /\ gDelay = delay_init(DefaultBpm, DELAY_1_4)
  /\ pad = PadBoot
  /\ gScene = SceneXfade0
  /\ gSceneSch = SceneScheduler0
  /\ loopObs = LoopObsInit
  /\ ClockIdle
  /\ QuantIdle
  /\ DlenIdle
  /\ PluckIdle
  /\ SchedIdle
  /\ FxIdle
  /\ PanelIdle
  /\ EncIdle
  /\ IsrIdle
  /\ DetIdle
  /\ AmbIdle
  /\ WobIdle
  /\ EnvIdle

NextMix == MixHead \/ MixTail

SpecMix == InitMix /\ [][NextMix]_vars

\* the panel run starts as setup() leaves the program; the user dials up or down
InitPanel ==
  /\ gClock = clock_init(DefaultBpm)
  /\ stepLog = <<>>
  /\ clockObs = ClockObsInit
  /\ LoopIdle
  /\ \E dir \in {-1, 1} : panelObs = [PanelObsInit EXCEPT !.dir = dir]
  /\ QuantIdle
  /\ DlenIdle
  /\ PluckIdle
  /\ SchedIdle
  /\ FxIdle
  /\ MixIdle
  /\ EncIdle
  /\ IsrIdle
  /\ DetIdle
  /\ AmbIdle
  /\ WobIdle
  /\ EnvIdle

NextPanel == PanelHead \/ PanelTail

SpecPanel == InitPanel /\ [][NextPanel]_vars

\* the position of loop() moves on: PanelHead is enabled at "head" until the run's
\* last iteration, PanelTail always at "render", and they are the only steps that
\* move panelObs this way
LoopStarts ==
  /\ panelObs.pc = "head"
  /\ panelObs.it < MaxPanelIters
  /\ \E ph \in {"dial", "free"}, h \in BOOLEAN, t \in {0, 1} :
       panelObs' = [panelObs EXCEPT !.pc = "render", !.phase = ph, !.hit = h, !.turns = @ + t]

LoopReturns ==
  /\ panelObs.pc = "render"
  /\ panelObs' = [panelObs EXCEPT !.pc = "head", !.it = @ + 1,
                                   !.since = @ + (IF panelObs.phase = "free" THEN 1 ELSE 0)]

\* loop() is called again and again and every call returns: i2s_write blocks only
\* until the block has been queued
SpecPanelFair == SpecPanel /\ WF_panelObs(LoopStarts) /\ WF_panelObs(LoopReturns)

\* setup(): encPrev is read from the pins, whatever they are
InitEnc ==
  /\ encPins \in 0..3
  /\ encPrev = encPins
  /\ encDelta = 0
  /\ btnRaw = FALSE
  /\ encObs = EncObsInit
  /\ ClockIdle
  /\ QuantIdle
  /\ DlenIdle
  /\ PluckIdle
  /\ SchedIdle
  /\ LoopIdle
  /\ FxIdle
  /\ MixIdle
  /\ PanelIdle
  /\ IsrIdle
  /\ DetIdle
  /\ AmbIdle
  /\ WobIdle
  /\ EnvIdle

NextEnc ==
  \/ EncEdge
  \/ onEncButton
  \/ EncReadA
  \/ EncReadB
  \/ EncAdd
  \/ TakeCli
  \/ TakeLoad
  \/ TakeClear
  \/ TakeSei
  \/ EncRest

SpecEnc == InitEnc /\ [][NextEnc]_vars

\* encInit(): lastAB is read from the pins, whatever they are
InitIsr ==
  /\ encPins \in 0..3
  /\ lastAB = encPins
  /\ encLastMicros = 0
  /\ encDelta = 0
  /\ isrObs = IsrObsInit
  /\ encPrev = 0
  /\ btnRaw = FALSE
  /\ encObs = EncObsInit
  /\ ClockIdle
  /\ QuantIdle
  /\ DlenIdle
  /\ PluckIdle
  /\ SchedIdle
  /\ LoopIdle
  /\ FxIdle
  /\ MixIdle
  /\ PanelIdle
  /\ DetIdle
  /\ AmbIdle
  /\ WobIdle
  /\ EnvIdle

NextIsr ==
  \/ IsrEdge
  \/ isr_encA
  \/ AbLoad
  \/ AbClear
  \/ AbRest

SpecIsr == InitIsr /\ [][NextIsr]_vars

\* both runs start from the same seed and the same engine state
InitDet ==
  /\ \E seed \in Seeds : gRun = [r \in {1, 2} |-> DetRun0(seed)]
  /\ detObs = DetObsInit
  /\ ClockIdle
  /\ QuantIdle
  /\ DlenIdle
  /\ PluckIdle
  /\ SchedIdle
  /\ LoopIdle
  /\ FxIdle
  /\ MixIdle
  /\ PanelIdle
  /\ EncIdle
  /\ IsrIdle
  /\ AmbIdle
  /\ WobIdle
  /\ EnvIdle

NextDet ==
  \/ DetLoop
  \/ DetStall

SpecDet == InitDet /\ [][NextDet]_vars

InitAmb ==
  /\ plk = [i \in AmbVoices |-> Pluck0]
  /\ ambObs = AmbObsInit
  /\ ClockIdle
  /\ QuantIdle
  /\ DlenIdle
  /\ PluckIdle
  /\ SchedIdle
  /\ LoopIdle
  /\ FxIdle
  /\ MixIdle
  /\ PanelIdle
  /\ EncIdle
  /\ IsrIdle
  /\ DetIdle
  /\ WobIdle
  /\ EnvIdle

NextAmb ==
  \/ AmbTrigger
  \/ AmbRender

SpecAmb == InitAmb /\ [][NextAmb]_vars

InitWob ==
  /\ \E b \in WobBuilds : wobSt = Wob0(b)
  /\ wobObs = WobObsInit
  /\ ClockIdle
  /\ QuantIdle
  /\ DlenIdle
  /\ PluckIdle
  /\ SchedIdle
  /\ LoopIdle
  /\ FxIdle
  /\ MixIdle
  /\ PanelIdle
  /\ EncIdle
  /\ IsrIdle
  /\ DetIdle
  /\ AmbIdle
  /\ EnvIdle

NextWob == WobStep

SpecWob == InitWob /\ [][NextWob]_vars

InitEnv ==
  /\ envV = EnvVoice0
  /\ \E c \in EnvSettings : envObs = EnvObsInit(c)
  /\ envTick = 0
  /\ ClockIdle
  /\ QuantIdle
  /\ DlenIdle
  /\ PluckIdle
  /\ SchedIdle
  /\ LoopIdle
  /\ FxIdle
  /\ MixIdle
  /\ PanelIdle
  /\ EncIdle
  /\ IsrIdle
  /\ DetIdle
  /\ AmbIdle
  /\ WobIdle

NextEnv ==
  \/ EnvNoteOn
  \/ EnvBlock

SpecEnv == InitEnv /\ [][NextEnv]_vars

\* the block counter moves on: EnvBlock is always enabled and is the only step
\* that changes envTick
BlockRendered == envTick' = 1 - envTick

\* loop() is called again and again and i2s_write returns: blocks keep being rendered
SpecEnvFair == SpecEnv /\ WF_envTick(BlockRendered)

(***************************************************************************)
(* Claims                                                                  *)
(***************************************************************************)

\* C1: with a fixed tempo, after blocks summing to N samples the clock has called
\* onStep16 exactly floor(N / samplesPerTick) times, the k-th call with step k mod 16,
\* whatever the block sizes were.
C1_ChunkingInvariance ==
  clockObs.retunes = 0 =>
    /\ Len(stepLog) = gClock.smpNow \div gClock.samplesPerTick
    /\ \A k \in 1..Len(stepLog) : stepLog[k] = (k - 1) % 16

\* a fixed-tempo run in which the last block alone fired several ticks and the
\* step index has wrapped past 15
C1_Witness ==
  /\ clockObs.retunes = 0
  /\ clockObs.blockTicks >= 2
  /\ Len(stepLog) > 16

\* C2: a tempo update with a new BPM re-derives samplesPerTick and re-arms the next
\* tick at smpNow + samplesPerTick; the pending tick is always strictly after the
\* sample counter, no tick fires at or before the time of the change, and an update
\* with the cached BPM changes nothing.
C2_TempoChangeNotRetroactive ==
  /\ [](gClock.nextTickAt > gClock.smpNow)
  /\ [](clockObs.firstTick # 0 => clockObs.firstTick > clockObs.rearmAt)
  /\ [][clockObs'.op = "update" =>
          IF clockObs'.arg # gClock.bpm
          THEN /\ gClock'.bpm = clockObs'.arg
               /\ gClock'.samplesPerTick = clock_spt_from_bpm(clockObs'.arg)
               /\ gClock'.nextTickAt = gClock.smpNow + gClock'.samplesPerTick
               /\ gClock'.smpNow = gClock.smpNow
               /\ gClock'.step16 = gClock.step16
          ELSE gClock' = gClock]_vars

\* a tempo change made mid-run that moved the pending tick
C2_Witness ==
  /\ clockObs.op = "update"
  /\ clockObs.arg # clockObs.prev.bpm
  /\ clockObs.prev.smpNow > 0
  /\ gClock.nextTickAt # clockObs.prev.nextTickAt

ScalePCs(s) == {(SCALES[s].rootPC + SCALES[s].degrees[i]) % 12 : i \in 1..7}

\* C3: for every note 0..127 and every builtin scale the quantized note is in
\* 0..127, its pitch class is in the scale, it is at most 6 semitones from the
\* input, no in-scale note is nearer, and of two equally near ones it is the upper.
C3_QuantizerCorrect ==
  qOut # -1 =>
    LET n == qIn[1]
        pcs == ScalePCs(qIn[2])
    IN  /\ qOut \in 0..127
        /\ (qOut % 12) \in pcs
        /\ Abs(qOut - n) <= 6
        /\ \A m \in (n - 6)..(n + 6) :
             (m % 12) \in pcs =>
               /\ Abs(m - n) >= Abs(qOut - n)
               /\ (Abs(m - n) = Abs(qOut - n) => m <= qOut)

\* a quantization that had to move the note, with an equally near in-scale note below
C3_Witness ==
  /\ qOut # -1
  /\ qOut > qIn[1]
  /\ ((2 * qIn[1] - qOut) % 12) \in ScalePCs(qIn[2])

\* the tempo-synced length as a real number rounded to the nearest integer:
\* round(SR*60/bpm) for a quarter note, round(SR*60/(2 bpm)) for an eighth
ExactDelayLen(bpm, m) ==
  IF m = DELAY_1_8 THEN (SR * 60 + bpm) \div (2 * bpm)
  ELSE (2 * SR * 60 + bpm) \div (2 * bpm)

IsNoteOnStep == pluckObs'.noteOns = pluckObs.noteOns + 1

\* voice v has just been started by a noteOn of velocity vel
Restarted(v, vel) ==
  /\ v.active
  /\ v.st = ENV_ATTACK
  /\ v.env = 0
  /\ v.phase = 0
  /\ v.gate = FALSE
  /\ v.vel >= 0 /\ v.vel <= VelOne
  /\ (vel >= 0 /\ vel <= VelOne) => v.vel = vel
  /\ vel < 0 => v.vel = 0
  /\ vel > VelOne => v.vel = VelOne

\* n is a note of scale s nearest to midi
NearestInScale(n, midi, s) ==
  /\ pc12(n) \in ScalePCs(s)
  /\ \A d \in 0..(Abs(n - midi) - 1) :
       /\ midi + d \in MidiNotes => pc12(midi + d) \notin ScalePCs(s)
       /\ midi - d \in MidiNotes => pc12(midi - d) \notin ScalePCs(s)

\* C4 as stated: every noteOn (re)starts exactly one voice, with the requested
\* note assigned to it.
C4_AsClaimed ==
  [][IsNoteOnStep =>
       \E i \in Voices :
         /\ Restarted(gPluck'[i], pluckObs'.vel)
         /\ gPluck'[i].midi = pluckObs'.midi
         /\ \A j \in Voices \ {i} : gPluck'[j] = gPluck[j]]_vars

\* C4 (amended): every noteOn, also on a full pool, (re)starts exactly one voice:
\* active, Attack, env 0, phase 0, velocity clamped to [0,1]; the other voices are
\* untouched.  The note assigned is a note of the current scale nearest to the
\* requested one in the firmware, and the requested note itself in the browser.
C4_NoteOnNeverFails ==
  [][IsNoteOnStep =>
       \E i \in Voices :
         /\ Restarted(gPluck'[i], pluckObs'.vel)
         /\ IF port = "firmware"
            THEN NearestInScale(gPluck'[i].midi, pluckObs'.midi, gScale)
            ELSE gPluck'[i].midi = pluckObs'.midi
         /\ \A j \in Voices \ {i} : gPluck'[j] = gPluck[j]]_vars

\* a noteOn on a full pool whose voices have all moved on from their start, for a
\* note outside the scale and a velocity above the range, in the firmware
C4_Witness ==
  /\ port = "firmware"
  /\ pluckObs.op = "noteOn"
  /\ pluckObs.full
  /\ pluckObs.renders > 0
  /\ pluckObs.midi = 61
  /\ pluckObs.vel > VelOne
  /\ gPluck[pluckObs.idx].midi = 62
  /\ gPluck[pluckObs.idx].vel = VelOne

\* C5: with a free voice, noteOn takes a free voice and changes no active voice;
\* with all four active it re-triggers a voice of least env and leaves the other
\* three as they were; four or more noteOns with no sample rendered in between
\* leave exactly four voices sounding.
C5_QuietestVoiceStealing ==
  /\ [][IsNoteOnStep =>
          \E i \in Voices :
            /\ gPluck'[i].active /\ gPluck'[i].st = ENV_ATTACK /\ gPluck'[i].env = 0
            /\ \A j \in Voices \ {i} : gPluck'[j] = gPluck[j]
            /\ (\E k \in Voices : ~gPluck[k].active) => ~gPluck[i].active
            /\ (\A k \in Voices : gPluck[k].active) =>
                 \A k \in Voices : gPluck[i].env <= gPluck[k].env]_vars
  /\ [](pluckObs.noteOns >= 4 /\ pluckObs.renders = 0 =>
          Cardinality({i \in Voices : gPluck[i].active}) = 4)

\* the fifth noteOn found all four voices active and stole a voice other than
\* voice 0, voice 0 being louder
C5_Witness ==
  /\ pluckObs.op = "noteOn"
  /\ pluckObs.noteOns = 5
  /\ pluckObs.full
  /\ pluckObs.idx # 0
  /\ gPluck[0].env > 0
  /\ \A i \in Voices : gPluck[i].active

StartedVoice == gPluck[pluckObs.idx]

\* C7: every note the scheduler starts has a pitch class of the scale that is
\* current at the trigger, also right after a scale switch and when
\* pickAmbientNote repeats its previous note.
C7_NotesFollowScale ==
  schedObs.op = "trigger" => pc12(StartedVoice.midi) \in ScalePCs(gScale)

\* C7 in the firmware alone, where pluck_noteOn quantizes the note it is given
C7_FirmwareNotesFollowScale ==
  (port = "firmware" /\ schedObs.op = "trigger") =>
    pc12(StartedVoice.midi) \in ScalePCs(gScale)

\* the firmware has started a repeated note that is outside the scale it was
\* repeated in, moved into the scale by pluck_noteOn
C7_FirmwareWitness ==
  /\ port = "firmware"
  /\ schedObs.op = "trigger"
  /\ schedObs.held
  /\ schedObs.switches > 0
  /\ pc12(schedObs.note) \notin ScalePCs(gScale)
  /\ StartedVoice.midi # schedObs.note

(***************************************************************************)
(* Control-rate claims                                                     *)
(***************************************************************************)
\* the index delay_step reads: (w + size - dSamp) mod size
DelayReadIndex == (gDelay.w + gDelay.size - gDelay.dSamp) % gDelay.size

\* C8: when a block is about to be rendered, 1 <= dSamp <= size - 1, the read index
\* is a valid index other than the write index, and dSamp is the length for the
\* current tempo and the current delay mode.
C8_DelayLengthInvariant ==
  loopObs.pc = "render" =>
    /\ gDelay.dSamp >= 1
    /\ gDelay.dSamp <= gDelay.size - 1
    /\ DelayReadIndex \in 0..(gDelay.size - 1)
    /\ DelayReadIndex # gDelay.w
    /\ gDelay.dSamp = delay_samples_from_bpm(params.tempoBPM, gDelay.mode)

\* a block is about to be rendered in a crossfade that has switched the delay mode
\* away from the one set at start-up and whose last scene_update changed the tempo,
\* leaving a tap length that loop() had to recompute
C8_Witness ==
  /\ loopObs.pc = "render"
  /\ loopObs.stale
  /\ gScene.active
  /\ gDelay.mode = DELAY_1_8
  /\ params.tempoBPM # DefaultBpm
  /\ loopObs.turns > 0

(***************************************************************************)
(* Effects claims                                                          *)
(***************************************************************************)
\* every sample held by a ring
RingSamples ==
  {fxDelay.buf[i] : i \in 1..fxDelay.size} \cup {fxComb.buf[i] : i \in 1..fxComb.size}
    \cup {fxAp.buf[i] : i \in 1..fxAp.size}

\* C10: whatever the input sample and the coefficients, the sample a step stores
\* is the value it computed, limited to [-1,1] and truncated to int16 (it has the
\* computed value's sign and never wraps), and every sample in a ring lies in
\* [-32767, 32767].
C10_WritesNeverOverflow ==
  /\ \A v \in RingSamples : v >= -SampleOne /\ v <= SampleOne
  /\ fxObs.op \in {"delay", "comb", "allpass"} =>
       /\ fxObs.raw >= One => fxObs.stored = SampleOne
       /\ fxObs.raw <= -One => fxObs.stored = -SampleOne
       /\ (fxObs.raw > -One /\ fxObs.raw < One) =>
            /\ fxObs.stored * Sub <= Abs(fxObs.raw) /\ -(fxObs.stored * Sub) <= Abs(fxObs.raw)
            /\ Abs(fxObs.stored * Sub - fxObs.raw) < Sub

\* a comb with feedback above 1 has read back a full-scale sample and computed a
\* value above 1.0 from an in-range input; the sample stored is full scale
C10_Witness ==
  /\ fxObs.op = "comb"
  /\ fxComb.fb > 1000
  /\ fxObs.raw > One + One \div 2
  /\ fxObs.stored = SampleOne
  /\ fxObs.steps >= 3

(***************************************************************************)
(* Mix claims                                                              *)
(***************************************************************************)
\* space percents handed to delay_set_space, in and out of 0..100
SpacePercents == {-(2 ^ 15), -1, 101, 2 ^ 15 - 1}

\* C11: after any Space and Mood edits, crossfade steps and gesture updates the
\* delay feedback is at most 0.6 and each of the four comb feedbacks at most 0.75,
\* so all are below 1; delay_set_space gives such feedbacks for any integer
\* percent, also outside 0..100.
C11_FeedbackBelowOne ==
  /\ dlMix.fb <= (6 * CoefOne) \div 10
  /\ \A i \in 0..3 : gReverb.c[i].fb <= (75 * CoefOne) \div 100 /\ gReverb.c[i].fb < CoefOne
  /\ \A pct \in SpacePercents :
       LET M == delay_set_space([dl |-> dlMix, rv |-> gReverb], pct)
       IN  /\ M.dl.fb <= (6 * CoefOne) \div 10
           /\ \A i \in 0..3 : M.rv.c[i].fb <= (75 * CoefOne) \div 100

\* Space has been turned up to 100 and a gesture has boosted the sends: the
\* feedbacks are at their largest, 0.55 and 0.72
C11_Witness ==
  /\ params.spacePercent = 100
  /\ mixObs.edits > 0
  /\ mixObs.boosted
  /\ dlMix.fb = (55 * CoefOne) \div 100
  /\ gReverb.c[3].fb = (72 * CoefOne) \div 100

\* C12: whenever the space percent is 0 the wets and the sends of delay and
\* reverb are 0, also while a gesture is active.
C12_SpaceZeroMeansNoEffects ==
  params.spacePercent = 0 =>
    /\ dlMix.wet = 0 /\ dlMix.send = 0
    /\ gReverb.wet = 0 /\ gReverb.send = 0

\* Space is 0 and a gesture is under way with its envelope above the threshold
C12_Witness ==
  /\ params.spacePercent = 0
  /\ gGesture.active
  /\ gGesture.env > GQ \div 2
  /\ mixObs.pc = "head"
  /\ dlMix.wet = 0

\* C15: after every gesture_update_and_apply the sends and wets equal their bases
\* when the smoothed envelope is at or below 0.0005, and base * (1 + boost * env)
\* when it is above.
C15_GestureReversible ==
  (mixObs.pc = "head" /\ mixObs.blocks > 0) =>
    IF gGesture.env <= GestureThreshold
    THEN /\ dlMix.send = dlMix.baseSend /\ dlMix.wet = dlMix.baseWet
         /\ gReverb.send = gReverb.baseSend /\ gReverb.wet = gReverb.baseWet
    ELSE /\ dlMix.send = Boosted(dlMix.baseSend, gGesture.fxSendBoost, gGesture.env)
         /\ dlMix.wet = Boosted(dlMix.baseWet, gGesture.fxWetBoost, gGesture.env)
         /\ gReverb.send = Boosted(gReverb.baseSend, gGesture.fxSendBoost, gGesture.env)
         /\ gReverb.wet = Boosted(gReverb.baseWet, gGesture.fxWetBoost, gGesture.env)

\* a gesture has boosted the sends and has ended: the sends and wets are back at
\* their non-zero bases
C15_Witness ==
  /\ mixObs.pc = "head"
  /\ mixObs.boosted
  /\ ~gGesture.active
  /\ gGesture.env = 0
  /\ dlMix.baseSend > 0
  /\ dlMix.send = dlMix.baseSend
  /\ gReverb.wet = gReverb.baseWet

(***************************************************************************)
(* Crossfade and parameter claims                                          *)
(***************************************************************************)
SceneStartsNow == ~gScene.active /\ gScene'.active
SceneEndsNow == gScene.active /\ ~gScene'.active

\* the integer and discrete parameters at the two ends of a crossfade, and the
\* logarithm of the cutoff
EndPointsOfDiscretes ==
  /\ SceneStartsNow =>
       /\ params' = params
       /\ pad' = pad
       /\ pad'.triMix = gScene'.start.triMix
       /\ pad'.lpfCutHz = gScene'.start.lpfCutHz
       /\ params'.spacePercent = gScene'.start.spacePercent
       /\ params'.tempoBPM = gScene'.start.tempoBPM
  /\ SceneEndsNow =>
       /\ pad'.lpfCutHz = gScene'.target.lpfCutHz
       /\ params'.spacePercent = gScene'.target.spacePercent
       /\ params'.tempoBPM = gScene'.target.tempoBPM
       /\ gScale' = gScene'.target.scale
       /\ gDelay'.mode = gScene'.target.delayMode

SceneE == smooth(SceneT(gScene, gClock.smpNow))

LiveIsInterpolated ==
  /\ pad.triMix = lerpF(gScene.start.triMix, gScene.target.triMix, SceneE)
  /\ pad.lpfCutHz = lerpRound(gScene.start.lpfCutHz, gScene.target.lpfCutHz, SceneE)
  /\ params.spacePercent =
       constrain(lerpRound(gScene.start.spacePercent, gScene.target.spacePercent, SceneE),
                 0, 100)
  /\ params.tempoBPM =
       constrain(lerpRound(gScene.start.tempoBPM, gScene.target.tempoBPM, SceneE),
                 MinBpm, MaxBpm)

\* C14: while a crossfade is active, at every rendered block the live mix, cutoff,
\* space and tempo equal the interpolation of start and target at the current
\* eased position, whatever the user does with the encoder.
C14_NoMidCrossfadeJumps ==
  (panelObs.pc = "render" /\ gScene.active) => LiveIsInterpolated

\* the same for blocks rendered while the user leaves the encoder alone
C14_InterpolatedWithoutEdits ==
  (panelObs.pc = "render" /\ gScene.active /\ panelObs.turns = 0) => LiveIsInterpolated

\* C20: after any encoder deltas on any page, clicks and crossfade updates, volume,
\* space, mood, tone and energy are in 0..100 and the tempo is in 30..240.
C20_ParamsInDomain ==
  /\ params.volumePercent \in 0..100
  /\ params.tempoBPM \in MinBpm..MaxBpm
  /\ params.spacePercent \in 0..100
  /\ params.moodPercent \in 0..100
  /\ params.tonePercent \in 0..100
  /\ params.energyPercent \in 0..100

\* every parameter has been turned down against its lower limit, a crossfade from
\* the lowest tempo is running and the user has turned the encoder during it
C20_Witness ==
  /\ params.volumePercent = 0
  /\ params.moodPercent = 0
  /\ params.tonePercent = 0
  /\ params.energyPercent = 0
  /\ gScene.active
  /\ gScene.start.tempoBPM = MinBpm
  /\ panelObs.turns > 0


\* C16: every increment added to encDelta is returned by exactly one call of
\* takeEncoderDelta: at every moment the sum of the returned values, the
\* pending encDelta and (between the clear and the return) the value about
\* to be returned equals the sum of the increments; the button interrupt
\* never runs between noInterrupts() and interrupts().
C16_DeltaConsumedOnce ==
  /\ encObs.taken + encDelta + (IF encObs.pc = "sei" THEN encObs.d ELSE 0) = encObs.added
  /\ encObs.pc \in {"load", "clear", "sei"} => ~encObs.irq

\* steps were counted in both directions and taken in several calls, and
\* a step is pending again
C16_Witness ==
  /\ encObs.pc = "cli"
  /\ encObs.taken = 1
  /\ encObs.added = 2
  /\ encDelta = 1
  /\ btnRaw


\* C17: in the interrupt-driven variant no encoder step is lost or counted
\* twice: the steps given to editPageByDelta plus the steps still in
\* encDelta are the steps the interrupt handler counted.
C17_NoStepLostOrDoubled == isrObs.taken + encDelta = isrObs.added

\* C17, the part that holds: the sums agree as long as no handler has run
\* between audioBlock's read of encDelta and its clear.
C17_AgreeUntilInterleaved ==
  [][(isrObs.taken + encDelta = isrObs.added /\ ~(isrObs.pc = "test" /\ isrObs.d # encDelta))
       => (isrObs.taken' + encDelta' = isrObs.added')]_vars


\* C18: two runs from the same seed and the same initial engine state that have
\* rendered the same number of blocks have made the same sequence of noteOn
\* calls, whatever millis() returned in either run.
C18_SameNotesAfterSameBlocks ==
  gRun[1].k = gRun[2].k => gRun[1].notes = gRun[2].notes

\* C18, the part that holds: as long as millis() has advanced alike in both runs,
\* equal block counts give equal generator states and equal notes.
C18_SameNotesWithoutStall ==
  (gRun[1].k = gRun[2].k /\ gRun[2].lag = 0)
    => (gRun[1].notes = gRun[2].notes /\ gRun[1].gRng32 = gRun[2].gRng32)


\* C19: after every call of triggerPluck, also one made while all PLUCK_N
\* voices are on, some voice has just started the new note: it is on with
\* env = 0, phase = 0 and the new frequency increment.
C19_NoteAlwaysStarts ==
  ambObs.op = "trigger" =>
    \E i \in AmbVoices :
      plk[i].on /\ plk[i].env = 0 /\ plk[i].phase = 0 /\ plk[i].inc = ambObs.inc

\* C19, the part that holds: a call made while some voice is off starts the note
\* on the first such voice.
C19_StartsWhenAVoiceIsFree ==
  (ambObs.op = "trigger" /\ ~ambObs.full) =>
    \E i \in AmbVoices :
      plk[i].on /\ plk[i].env = 0 /\ plk[i].phase = 0 /\ plk[i].inc = ambObs.inc

\* a call made while all voices are on leaves every voice as it was
C19_FullCallChangesNothing ==
  [][(ambObs'.op = "trigger" /\ ambObs'.full) => plk' = plk]_vars



\* C21: the wobble is re-drawn exactly once per bar: an onStep16 call re-draws
\* it only at a bar boundary (step 0), and no 16 consecutive calls pass
\* without a re-draw.
C21_WobbleRedrawnEveryBar ==
  /\ wobObs.drew => wobObs.step = 0
  /\ wobObs.sinceDraw <= 15

\* C21, what the firmware does: step is always below 16, so bar stays 0 and the
\* wobble keeps its initial value 1.0 for the whole run.
C21_FirmwareNeverRedraws ==
  wobSt.build = "firmware" => (wobSt.wob = WobOne /\ wobObs.sinceDraw = wobObs.steps)

\* C21, the browser port: re-drawn at every step 0 and at no other step.
C21_LabRedrawsEveryBar ==
  (wobSt.build = "lab" /\ wobObs.steps > 0) =>
    (wobObs.drew <=> wobObs.step = 0) /\ wobObs.sinceDraw = wobObs.step


\* C22: whenever no gesture is active after gesture_update_and_apply, the pad's
\* low-pass is tuned to the base cutoff pad.lpfCutHz.
C22_CutoffAtBaseWhenInactive ==
  (mixObs.pc = "head" /\ mixObs.blocks > 0 /\ ~gGesture.active) => pad.lp = pad.lpfCutHz

\* C22, the part that holds: until a gesture has raised the envelope above the
\* threshold, the low-pass is tuned to the base cutoff.
C22_CutoffAtBaseBeforeFirstGesture ==
  ~mixObs.boosted => pad.lp = pad.lpfCutHz

\* a gesture_update_and_apply that leaves the envelope at or below the threshold
\* does not retune the pad's low-pass
C22_NoRetuneBelowThreshold ==
  [][(mixObs.pc = "tail" /\ gGesture'.env <= GestureThreshold) => pad'.lp = pad.lp]_vars


\* C23: once a crossfade has been started, gScale is the captured start scale
\* as long as the eased fraction e of the latest scene_update is below 0.2 and
\* the target scale from the first update with e >= 0.2 on; the delay mode is
\* the start mode as long as e is below 0.8 and the target mode from then on;
\* the delay mode has never left the start mode while the scale switch is
\* still to come; before the scale switch no update changes the captured
\* start scale.
C23_DiscreteSwitchesOrdered ==
  /\ [](gScene.tEndSmp > 0 =>
          /\ gScale = (IF ScaleSwitchDue(SceneE) THEN gScene.target.scale
                       ELSE gScene.start.scale)
          /\ gDelay.mode = (IF DelaySwitchDue(SceneE) THEN gScene.target.delayMode
                            ELSE gScene.start.delayMode)
          /\ gDelay.mode # gScene.start.delayMode => ScaleSwitchDue(SceneE))
  /\ [][(gScene.active /\ gScene'.active /\ ~ScaleSwitchDue(SceneE'))
          => (gScene'.start.scale = gScene.start.scale /\ gScale' = gScale)]_vars

\* a crossfade from A minor and 1/4 to D dorian and 1/8 is between e = 0.2 and
\* e = 0.8: the scale has switched, the delay mode has not
C23_Witness ==
  /\ gScene.active
  /\ ScaleSwitchDue(SceneE) /\ ~DelaySwitchDue(SceneE)
  /\ gScale = SCALE_D_DORIAN
  /\ gScene.start.delayMode = DELAY_1_4
  /\ gScene.target.delayMode = DELAY_1_8
  /\ gDelay.mode = DELAY_1_4

\* the same crossfade past e = 0.8: both have switched
C23_WitnessLate ==
  /\ gScene.active
  /\ DelaySwitchDue(SceneE)
  /\ gScale = SCALE_D_DORIAN
  /\ gScene.start.delayMode = DELAY_1_4
  /\ gDelay.mode = DELAY_1_8


\* the last sample time a run of the panel reaches
PanelHorizon == MaxPanelIters * CHUNK

\* what rand01() can return for the crossfade length, in 1/1000
DurRands == {0, 1, 500, 999, 1000}

\* C24: a started crossfade has tEnd > tStart with a length of 10 to 20 seconds
\* of samples (for every value of rand01()); it stays active in every step that
\* leaves the sample time below tEnd and is inactive after the first
\* scene_update at or past tEnd; while it is active no new crossfade replaces
\* its times or targets; with loop() running on, an active crossfade (ending
\* inside the run) is eventually inactive.
C24_EveryCrossfadeEnds ==
  /\ [](/\ gScene.tEndSmp > 0 =>
             /\ gScene.tEndSmp > gScene.tStartSmp
             /\ gScene.tEndSmp - gScene.tStartSmp \in (10 * SR)..(20 * SR)
        /\ \A r \in DurRands : SceneDurSmp(r) \in (10 * SR)..(20 * SR))
  /\ [][gScene.active =>
          /\ gScene'.active <=> gClock'.smpNow < gScene.tEndSmp
          /\ gScene'.tStartSmp = gScene.tStartSmp
          /\ gScene'.tEndSmp = gScene.tEndSmp
          /\ gScene'.target = gScene.target]_vars
  /\ (gScene.active /\ gScene.tEndSmp <= PanelHorizon) ~> ~gScene.active

\* a crossfade has just ended: the block before the last one ended before tEnd
C24_Witness ==
  /\ panelObs.pc = "head"
  /\ ~gScene.active
  /\ gScene.tEndSmp > gScene.tStartSmp
  /\ gClock.smpNow >= gScene.tEndSmp
  /\ gClock.smpNow - CHUNK < gScene.tEndSmp



\* the time constants of the program, and shorter ones
ProgramTimes == {EnvProgram, EnvShort}

\* the samples within which a voice with the program's constants has ended
LifeSamples == 15 * CHUNK

\* C26 as stated: for any positive attack, decay and release times, a voice
\* that is active is eventually inactive once noteOns have stopped and blocks
\* keep being rendered.
C26_EveryPluckEnds ==
  envV.active ~> ~envV.active

\* C26 for the program's time constants: LifeSamples samples after its last
\* noteOn the voice is inactive, Idle and at env = 0; a voice is inactive
\* exactly when its envelope is Idle, and then env = 0; an active voice is
\* eventually inactive.
C26_PluckEndsWithProgramTimes ==
  /\ []((envObs.cfg \in ProgramTimes /\ envObs.age >= LifeSamples)
          => (~envV.active /\ envV.st = ENV_IDLE /\ envV.env = 0))
  /\ [](envV.active <=> envV.st # ENV_IDLE)
  /\ [](~envV.active => envV.env = 0)
  /\ (envObs.cfg \in ProgramTimes /\ envV.active) ~> ~envV.active

\* a voice with the program's constants has been started and has ended
C26_Witness ==
  /\ envObs.cfg = EnvProgram
  /\ envObs.noteOns > 0
  /\ envObs.age = LifeSamples
  /\ ~envV.active
  /\ envV.st = ENV_IDLE

\* with a decay time of 1000 s a block leaves an active voice at env = 1.0 in
\* Decay as it found it
C26_DecayAbsorbed ==
  [][(envObs.cfg = EnvLongDecay /\ envV.st = ENV_DECAY) => envV' = envV \/ envV'.st = ENV_ATTACK]_vars


\* the phase changes one adsr_step may make
AdsrOrder ==
  {<<ENV_ATTACK, ENV_DECAY>>, <<ENV_DECAY, ENV_SUSTAIN>>, <<ENV_SUSTAIN, ENV_RELEASE>>,
   <<ENV_RELEASE, ENV_IDLE>>}

\* C25: a rendered sample leaves a voice's envelope state alone or moves it one
\* phase on in the order Attack, Decay, Sustain, Release, Idle; a pluck_noteOn
\* puts the allocated voice into Attack from whatever state it was in and leaves
\* the states of the other voices alone; a voice in Sustain with the gate
\* released is in Release after the next sample.
C25_AdsrTransitionOrder ==
  [][\A i \in Voices :
       /\ pluckObs'.renders = pluckObs.renders + 1 =>
            /\ gPluck'[i].st = gPluck[i].st \/ <<gPluck[i].st, gPluck'[i].st>> \in AdsrOrder
            /\ (gPluck[i].st = ENV_SUSTAIN /\ ~gPluck[i].gate) => gPluck'[i].st = ENV_RELEASE
       /\ pluckObs'.noteOns = pluckObs.noteOns + 1 =>
            gPluck'[i].st = (IF i = pluckObs'.idx THEN ENV_ATTACK ELSE gPluck[i].st)]_vars

\* a rendered sample has taken a voice from Sustain on to Release above the
\* release floor, while another voice has been put back into Attack
C25_Witness ==
  /\ pluckObs.op = "render"
  /\ \E i, j \in Voices :
       /\ gPluck[i].active /\ gPluck[i].st = ENV_RELEASE /\ gPluck[i].env > ReleaseFloor
       /\ gPluck[j].active /\ gPluck[j].st \in {ENV_ATTACK, ENV_DECAY}


\* C27: after a tempo change made at sample time T (rearmAt), a step event has
\* fired exactly when the sample counter has reached T + samplesPerTick, and the
\* first one is the tick at T + samplesPerTick, however close the tick pending
\* before the change was; a block that follows a tempo change and is shorter
\* than samplesPerTick fires no step event, so a tempo that changes before
\* every block fires none at all.
C27_TempoChangeRestartsWait ==
  /\ [](clockObs.retunes > 0 =>
          /\ clockObs.firstTick # 0
               <=> gClock.smpNow >= clockObs.rearmAt + gClock.samplesPerTick
          /\ clockObs.firstTick # 0
               => clockObs.firstTick = clockObs.rearmAt + gClock.samplesPerTick)
  /\ [][(/\ clockObs'.op = "advance"
         /\ clockObs.op = "update"
         /\ clockObs.arg # clockObs.prev.bpm
         /\ clockObs'.arg < gClock.samplesPerTick)
          => stepLog' = stepLog]_vars

\* a tempo change has just been made less than a block before the pending tick
\* was due, and the wait has restarted: the next tick is a full new tick length
\* away, later than the tick that was pending
C27_Witness ==
  /\ clockObs.op = "update"
  /\ clockObs.arg # clockObs.prev.bpm
  /\ clockObs.prev.nextTickAt - clockObs.prev.smpNow < CHUNK
  /\ clockObs.firstTick = 0
  /\ gClock.nextTickAt = gClock.smpNow + gClock.samplesPerTick
  /\ gClock.nextTickAt > clockObs.prev.nextTickAt + 2 * CHUNK


\* the sample time of the scene turn that started the first crossfade, and the
\* number of blocks after it at which scene_update ends that crossfade
PanelSceneStart == gClock.smpNow - panelObs.since * CHUNK
FirstFadeBlocks == (SceneDurSmp(0) + CHUNK - 1) \div CHUNK

\* a turn of the encoder on the Scene page while the user is free to turn
ManualTrigger ==
  /\ panelObs.pc = "head"
  /\ currentPage = PAGE_SCENE
  /\ panelObs'.turns = panelObs.turns + 1

\* C28: a scene trigger made while a crossfade runs leaves the crossfade's
\* snapshots, its start and end times and its activity as they are and is
\* remembered as a scene that is due; the first scene_update that finds the
\* crossfade over starts the new one at its own sample time; and every start
\* moves the next scene a whole interval on, so the triggers made during one
\* crossfade (one or two of them here) are followed by one crossfade.
C28_TriggerDuringCrossfadeDeferred ==
  /\ [][(ManualTrigger /\ gScene.active)
          => /\ gScene' = gScene
             /\ gSceneSch'.nextSceneAt = gClock.smpNow]_vars
  /\ [][(/\ panelObs.pc = "render"
         /\ ~gScene.active
         /\ gSceneSch.inited
         /\ gSceneSch.nextSceneAt <= gClock.smpNow + CHUNK)
          => /\ gScene'.active
             /\ gScene'.tStartSmp = gClock'.smpNow
             /\ gScene'.tStartSmp = gClock.smpNow + CHUNK]_vars
  /\ [][SceneStartsNow
          => gSceneSch'.nextSceneAt >= gScene'.tStartSmp + gSceneSch'.minIntvSmp]_vars
  /\ []((/\ panelObs.phase = "free"
         /\ currentPage = PAGE_SCENE
         /\ (panelObs.since \div PanelSlot) * PanelSlot < FirstFadeBlocks
         /\ panelObs.since > FirstFadeBlocks)
          => IF panelObs.turns = 0
             THEN ~gScene.active
             ELSE /\ gScene.active
                  /\ gScene.tStartSmp = PanelSceneStart + (FirstFadeBlocks + 1) * CHUNK
                  /\ gSceneSch.nextSceneAt = gScene.tStartSmp + gSceneSch.minIntvSmp)

\* two triggers have been made during the first crossfade and the one crossfade
\* that follows them is running, with no further scene due
C28_Witness ==
  /\ panelObs.phase = "free"
  /\ currentPage = PAGE_SCENE
  /\ panelObs.turns = 2
  /\ gScene.active
  /\ gScene.tStartSmp = PanelSceneStart + (FirstFadeBlocks + 1) * CHUNK
  /\ gSceneSch.nextSceneAt > gClock.smpNow


\* C29: after any sequence of noteOn calls and rendered samples a voice of the
\* pool is active exactly when its envelope state is not Idle, and the envelope
\* of every inactive voice is 0.
C29_FlagAndEnvelopeAgree ==
  \A i \in Voices :
    /\ gPluck[i].active <=> gPluck[i].st # ENV_IDLE
    /\ ~gPluck[i].active => gPluck[i].env = 0

\* a voice has been played to its end and retired by the render, while another
\* voice is sounding with a non-zero envelope, after four or more noteOn calls
C29_Witness ==
  /\ pluckObs.op = "render"
  /\ \E i \in Voices :
       /\ ~gPluck[i].active
       /\ gPluck[i].phase > 0
       /\ gPluck[i].st = ENV_IDLE
  /\ \E j \in Voices :
       /\ gPluck[j].active
       /\ gPluck[j].env > 0
  /\ pluckObs.noteOns >= 4


\* a gesture starts in this step
GestureStartsNow == gGesture'.active /\ gGesture'.tStart # gGesture.tStart

\* C30: a gesture starts only in an update that finds no gesture active; one that
\* falls due while a gesture runs starts at the first update after the update
\* that ended the running one; a started gesture has
\* tStart < tAtkEnd = tRelStart < tEnd and stays active exactly until the first
\* update with nowSmp >= tEnd; and the arrival time drawn at a start is later
\* than the start.
C30_GesturesNeverOverlap ==
  /\ [][GestureStartsNow
          => /\ ~gGesture.active
             /\ mixObs.pc = "tail"
             /\ gGesture'.tStart = mixObs'.now
             /\ gGesture'.nextAt > gGesture'.tStart]_vars
  /\ [][(/\ mixObs.pc = "tail"
         /\ ~gGesture.active
         /\ gGesture.nextAt # 0
         /\ gGesture.nextAt <= mixObs.now + CHUNK)
          => GestureStartsNow]_vars
  /\ [](gGesture.tStart # 0
          => /\ gGesture.tStart < gGesture.tAtkEnd
             /\ gGesture.tAtkEnd = gGesture.tRelStart
             /\ gGesture.tRelStart < gGesture.tEnd)
  /\ [](gGesture.active => mixObs.now < gGesture.tEnd)
  /\ [][(mixObs.pc = "tail" /\ gGesture.active)
          => (gGesture'.active <=> mixObs'.now < gGesture.tEnd)]_vars

\* the second gesture has started in the update after the one that ended the
\* first, although its arrival time had passed while the first was running
C30_Witness ==
  /\ gGesture.active
  /\ gGesture.tStart > SR
  /\ gGesture.tStart = mixObs.now
  /\ mixObs.pc = "head"
  /\ gGesture.nextAt > gGesture.tStart

================================================================
